---------------------------- MODULE Spec2Model ----------------------------
(***************************************************************************)
(* Model of the spatial core of island_past_infinity: the layered tile     *)
(* grid (Level), the auto-tile resolver, the sub-tile collision probe and  *)
(* the axis-separated mover (Body::move).                                  *)
(*                                                                         *)
(* Conventions.  Option<T> is a tuple: None is <<>> and Some(v) is <<v>>.  *)
(* Vec indices are 0-based as in the source; a Vec is a TLA+ sequence, so  *)
(* element i of v is v[i + 1].  Lengths (f32 in the source) are exact      *)
(* integers in units of 1/UnitsPerPixel of a pixel, so that TILE_SIZE / 3  *)
(* and TileHitInfo::SMALL are both whole numbers.  f32 rounding is         *)
(* modelled in two places only: the absorption of SMALL by large           *)
(* coordinates (from_left, from_top) and the sweep loop of SpecSweep,      *)
(* which runs in exact f32 arithmetic.                                     *)
(***************************************************************************)
EXTENDS Integers, Sequences, FiniteSets, TLC

\* level: the Level (extent, three layers, tileset registry).
\* body:  the Body whose hitbox Body::move updates.
\* editor_settings: the LevelEditorSettings the main loop owns.
\* sweep: the position of a running sweep loop of Body::move: its check
\*        point and the number of probes it has taken.
\* last:  history of the operation just performed: its arguments, what it
\*        returned and the values it started from.
VARIABLES level, body, editor_settings, sweep, last

vars == <<level, body, editor_settings, sweep, last>>

None == <<>>

\* No sweep loop is running.
NoSweep == [pc |-> "idle"]

Some(v) == <<v>>

(***************************************************************************)
(* Bounds of the model.                                                    *)
(***************************************************************************)
\* Rows and columns of the levels of Spec, SpecMove and SpecProbe.
MaxRows == 2

MaxCols == 3

\* Longest tile list of the tileset SpecResolve resolves in.
MaxTiles == 2

\* Number of editor operations in a behaviour of SpecResize and of
\* SpecRegistry.
MaxSteps == 2

(***************************************************************************)
(* Program constants (src/src/main.rs, src/src/resources/levels.rs).       *)
(***************************************************************************)
UnitsPerPixel == 3 * 10000

TILE_SIZE == 16 * UnitsPerPixel

TILE_COLLISION_SECTIONS == 3

SMALL == UnitsPerPixel \div 10000

\* TILE_SIZE / TILE_COLLISION_SECTIONS, the width of one collision sub-cell.
PortionSize == TILE_SIZE \div TILE_COLLISION_SECTIONS

(***************************************************************************)
(* Tile definitions (src/src/tilesets.rs).                                 *)
(***************************************************************************)
TileLayer == {"Background", "Object", "Overlay"}

\* TileAutoRule: the 8 slots in the order top_left, top, top_right, right,
\* bottom_right, bottom, bottom_left, left; each an Option<bool>.
RuleSlots == 1..8

from_array(array) ==
    <<Some(array[1]), Some(array[2]), Some(array[3]), Some(array[4]),
      Some(array[5]), Some(array[6]), Some(array[7]), Some(array[8])>>

\* CollisionMatrix::new(): every sub-cell solid.
CollisionMatrixNew == [r \in 1..3 |-> [c \in 1..3 |-> TRUE]]

TileAsset(x, y, auto_rule, layer, group, collision_matrix) ==
    [x |-> x, y |-> y, auto_rule |-> auto_rule, layer |-> layer,
     group |-> group, collision_matrix |-> collision_matrix]

TilePointer(tileset_id, idx) == [ts |-> tileset_id, idx |-> idx]

\* TileAutoRule::cmp with the loop unrolled from slot i on: a pair of
\* concrete slots either adds a point or ends the comparison with None.
RECURSIVE CmpFrom(_, _, _, _)
CmpFrom(self, other, i, points) ==
    IF i > 8 THEN Some(points)
    ELSE IF self[i] # None /\ other[i] # None
         THEN IF self[i][1] = other[i][1]
              THEN CmpFrom(self, other, i + 1, points + 1)
              ELSE None
         ELSE CmpFrom(self, other, i + 1, points)

\* A comparison that scores a mismatching pair 0 instead of disqualifying.
CmpLenient(self, other) ==
    Some(Cardinality({i \in RuleSlots :
        self[i] # None /\ other[i] # None /\ self[i][1] = other[i][1]}))

cmp(self, other) == CmpFrom(self, other, 1, 0)

(***************************************************************************)
(* Level (src/src/resources/levels.rs).  A Level value is a record of the  *)
(* struct's fields; a layer is a Vec of rows, each a Vec of                *)
(* Option<TilePointer>.                                                    *)
(***************************************************************************)
get_layer(lv, layer) ==
    CASE layer = "Background" -> lv.background
      [] layer = "Object" -> lv.object
      [] layer = "Overlay" -> lv.overlay

get_tile(lv, tile_ptr) == lv.tilesets[tile_ptr.ts].tiles[tile_ptr.idx + 1]

\* Vec::get on a layer: None outside the stored extent.
InLayer(layer, row, col) ==
    /\ row >= 0 /\ row < Len(layer)
    /\ col >= 0 /\ col < Len(layer[row + 1])

\* get_tile_mut!: the level with one cell of one layer replaced.
SetTile(lv, layer_id, row, col, val) ==
    CASE layer_id = "Background" ->
            [lv EXCEPT !.background[row + 1][col + 1] = val]
      [] layer_id = "Object" ->
            [lv EXCEPT !.object[row + 1][col + 1] = val]
      [] layer_id = "Overlay" ->
            [lv EXCEPT !.overlay[row + 1][col + 1] = val]

\* The 8 neighbour offsets in the order of the source's arrays.
Offsets ==
    << <<-1, -1>>, <<-1, 0>>, <<-1, 1>>, <<0, 1>>,
       <<1, 1>>, <<1, 0>>, <<1, -1>>, <<0, -1>> >>

\* One entry of the `present` array of get_auto_tile_for_index: whether
\* neighbour i exists in the layer and holds a tile of the given group.
Present(lv, layer, row, col, group, i) ==
    LET r == row + Offsets[i][1]
        c == col + Offsets[i][2]
    IN  IF InLayer(layer, r, c)
        THEN IF layer[r + 1][c + 1] # None
             THEN get_tile(lv, layer[r + 1][c + 1][1]).group = group
             ELSE FALSE
        ELSE FALSE

get_auto_tile_for_index(lv, row, col, layer_id, group) ==
    LET layer == get_layer(lv, layer_id)
    IN  from_array(<<Present(lv, layer, row, col, group, 1),
                     Present(lv, layer, row, col, group, 2),
                     Present(lv, layer, row, col, group, 3),
                     Present(lv, layer, row, col, group, 4),
                     Present(lv, layer, row, col, group, 5),
                     Present(lv, layer, row, col, group, 6),
                     Present(lv, layer, row, col, group, 7),
                     Present(lv, layer, row, col, group, 8)>>)

\* A scan that keeps the first qualified candidate and ignores the scores.
RECURSIVE BestScanFirst(_, _, _, _, _, _)
BestScanFirst(tiles, group, auto_rule, tileset_id, idx, max) ==
    IF idx >= Len(tiles) THEN max[2]
    ELSE LET possible == tiles[idx + 1]
             pts == IF possible.group = group /\ possible.auto_rule # None
                    THEN cmp(possible.auto_rule[1], auto_rule)
                    ELSE None
             next == IF pts # None /\ max[2] = None
                     THEN <<pts[1], Some(TilePointer(tileset_id, idx))>>
                     ELSE max
         IN  BestScanFirst(tiles, group, auto_rule, tileset_id, idx + 1, next)

\* A scan that replaces the running best only by a strictly higher score.
RECURSIVE BestScanStrict(_, _, _, _, _, _)
BestScanStrict(tiles, group, auto_rule, tileset_id, idx, max) ==
    IF idx >= Len(tiles) THEN max[2]
    ELSE LET possible == tiles[idx + 1]
             pts == IF possible.group = group /\ possible.auto_rule # None
                    THEN cmp(possible.auto_rule[1], auto_rule)
                    ELSE None
             next == IF pts # None /\ (pts[1] > max[1] \/ max[2] = None)
                     THEN <<pts[1], Some(TilePointer(tileset_id, idx))>>
                     ELSE max
         IN  BestScanStrict(tiles, group, auto_rule, tileset_id, idx + 1, next)

\* A scan that takes its candidates from every group.
RECURSIVE BestScanAnyGroup(_, _, _, _, _, _)
BestScanAnyGroup(tiles, group, auto_rule, tileset_id, idx, max) ==
    IF idx >= Len(tiles) THEN max[2]
    ELSE LET possible == tiles[idx + 1]
             pts == IF possible.auto_rule # None
                    THEN cmp(possible.auto_rule[1], auto_rule)
                    ELSE None
             next == IF pts # None /\ pts[1] >= max[1]
                     THEN <<pts[1], Some(TilePointer(tileset_id, idx))>>
                     ELSE max
         IN  BestScanAnyGroup(tiles, group, auto_rule, tileset_id, idx + 1, next)

\* The scan of find_best_tile_for_index from tile index idx on; max is the
\* running (points, pointer) pair.
RECURSIVE BestScan(_, _, _, _, _, _)
BestScan(tiles, group, auto_rule, tileset_id, idx, max) ==
    IF idx >= Len(tiles) THEN max[2]
    ELSE LET possible == tiles[idx + 1]
             pts == IF possible.group = group /\ possible.auto_rule # None
                    THEN cmp(possible.auto_rule[1], auto_rule)
                    ELSE None
             next == IF pts # None /\ pts[1] >= max[1]
                     THEN <<pts[1], Some(TilePointer(tileset_id, idx))>>
                     ELSE max
         IN  BestScan(tiles, group, auto_rule, tileset_id, idx + 1, next)

\* A resolver that leaves a subject without a rule of its own alone.
find_best_tile_for_ruled_index(lv, row, col, tile, tileset_id) ==
    IF tile.auto_rule = None THEN None
    ELSE BestScan(lv.tilesets[tileset_id].tiles, tile.group,
                  get_auto_tile_for_index(lv, row, col, tile.layer, tile.group),
                  tileset_id, 0, <<0, None>>)

\* find_best_tile_for_index: the observed signature of (row, col), then the
\* scan of the named tileset.
find_best_tile_for_index(lv, row, col, tile, tileset_id) ==
    CHOOSE out \in
        {BestScan(lv.tilesets[tileset_id].tiles, tile.group, auto_rule,
                  tileset_id, 0, <<0, None>>) :
            auto_rule \in {get_auto_tile_for_index(
                               lv, row, col, tile.layer, tile.group)}} : TRUE

\* An iteration that stores whatever the resolver returns, a tile or none.
SurroundingStepOverwriting(lv, row, col, layer_id, i) ==
    LET r == row + Offsets[i][1]
        c == col + Offsets[i][2]
    IN  IF r >= 0 /\ r < lv.rows /\ c >= 0 /\ c < lv.cols
           /\ get_layer(lv, layer_id)[r + 1][c + 1] # None
        THEN SetTile(lv, layer_id, r, c,
                     find_best_tile_for_index(
                         lv, r, c,
                         get_tile(lv, get_layer(lv, layer_id)[r + 1][c + 1][1]),
                         get_layer(lv, layer_id)[r + 1][c + 1][1].ts))
        ELSE lv

\* One iteration of the loop of set_surrounding_tiles: neighbour i, when it
\* is inside the stored extent and holds a tile, is re-resolved and, if the
\* resolver names a tile, overwritten.
SurroundingStep(lv, row, col, layer_id, i) ==
    LET r == row + Offsets[i][1]
        c == col + Offsets[i][2]
    IN  IF r >= 0 /\ r < lv.rows /\ c >= 0 /\ c < lv.cols
        THEN LET cell == get_layer(lv, layer_id)[r + 1][c + 1]
             IN  IF cell # None
                 THEN LET tile_ptr == find_best_tile_for_index(
                              lv, r, c, get_tile(lv, cell[1]), cell[1].ts)
                      IN  IF tile_ptr # None
                          THEN SetTile(lv, layer_id, r, c, tile_ptr)
                          ELSE lv
                 ELSE lv
        ELSE lv

\* The loop from neighbour i on, each iteration on the grid the earlier ones
\* left (the set binds the intermediate level as a value).
RECURSIVE SurroundingFrom(_, _, _, _, _)
SurroundingFrom(lv, row, col, layer_id, i) ==
    IF i > 8 THEN lv
    ELSE CHOOSE out \in {SurroundingFrom(lv2, row, col, layer_id, i + 1) :
                            lv2 \in {SurroundingStep(lv, row, col, layer_id, i)}} : TRUE

\* A ripple that, having replaced a neighbour's pointer, goes on to that
\* neighbour's own neighbours.
RECURSIVE SurroundingDeepFrom(_, _, _, _, _)
SurroundingDeepFrom(lv, row, col, layer_id, i) ==
    IF i > 8 THEN lv
    ELSE CHOOSE out \in
            {SurroundingDeepFrom(
                 IF lv2 # lv
                 THEN SurroundingFrom(lv2, row + Offsets[i][1],
                                      col + Offsets[i][2], layer_id, 1)
                 ELSE lv2,
                 row, col, layer_id, i + 1) :
                lv2 \in {SurroundingStep(lv, row, col, layer_id, i)}} : TRUE

set_surrounding_tiles_deep(lv, row, col, layer_id) ==
    CHOOSE out \in {SurroundingDeepFrom(l, row, col, layer_id, 1) : l \in {lv}} : TRUE

\* set_surrounding_tiles: the 8 neighbours of (row, col), in order.
set_surrounding_tiles(lv, row, col, layer_id) ==
    CHOOSE out \in {SurroundingFrom(l, row, col, layer_id, 1) : l \in {lv}} : TRUE

\* A clear that ignores the layer's visibility flag.
clear_layer_always(lv, row, col, layer_id, shown, auto_tile) ==
    CHOOSE out \in
        {IF auto_tile
         THEN set_surrounding_tiles(SetTile(l, layer_id, row, col, None),
                                    row, col, layer_id)
         ELSE SetTile(l, layer_id, row, col, None) : l \in {lv}} : TRUE

\* One of the three blocks of place_tile's clear branch: a shown layer's cell
\* is emptied and, with auto-tiling, its neighbours re-resolved.
clear_layer(lv, row, col, layer_id, shown, auto_tile) ==
    CHOOSE out \in
        {IF shown
         THEN IF auto_tile
              THEN set_surrounding_tiles(SetTile(l, layer_id, row, col, None),
                                         row, col, layer_id)
              ELSE SetTile(l, layer_id, row, col, None)
         ELSE l : l \in {lv}} : TRUE

\* A resolution without the fallback: no candidate leaves no pointer.
auto_tile_pointer_no_fallback(lv, row, col, tile, tileset_id, tile_id) ==
    find_best_tile_for_index(lv, row, col, tile, tileset_id)

\* The pointer an auto-tiling placement stores: the resolver's choice, or
\* the selected tile itself when the resolver names none.
auto_tile_pointer(lv, row, col, tile, tileset_id, tile_id) ==
    LET best == find_best_tile_for_index(lv, row, col, tile, tileset_id)
    IN  IF best # None THEN best ELSE Some(TilePointer(tileset_id, tile_id))

\* A placement into the layer of the tile that was resolved.
placement_layer_of_pointer(lv, tile, tile_ptr) == get_tile(lv, tile_ptr[1]).layer

\* The layer a placement writes: the selected tile's own layer tag.
placement_layer(lv, tile, tile_ptr) == tile.layer

\* A placement that re-resolves the neighbours whether or not auto-tiling is
\* on.
place_tile_always_propagating(lv, row, col, editor, auto_tile) ==
    IF editor.selected_tileset # None /\ editor.selected_tile # None
    THEN LET tileset_id == editor.selected_tileset[1]
             tile_id == editor.selected_tile[1]
             tile == lv.tilesets[tileset_id].tiles[tile_id + 1]
         IN  CHOOSE out \in
                {set_surrounding_tiles(
                    SetTile(lv, tile.layer, row, col, tile_ptr),
                    row, col, tile.layer) :
                 tile_ptr \in {IF auto_tile
                               THEN auto_tile_pointer(lv, row, col, tile,
                                                      tileset_id, tile_id)
                               ELSE Some(TilePointer(tileset_id, tile_id))}} : TRUE
    ELSE clear_layer(
             clear_layer(
                 clear_layer(lv, row, col, "Background", editor.show_background,
                             auto_tile),
                 row, col, "Object", editor.show_object, auto_tile),
             row, col, "Overlay", editor.show_overlay, auto_tile)

\* place_tile: the editor's placement (a tileset and a tile selected) or clear
\* (otherwise) at (row, col); editor is the LevelEditorSettings it reads.
place_tile(lv, row, col, editor, auto_tile) ==
    IF editor.selected_tileset # None /\ editor.selected_tile # None
    THEN LET tileset_id == editor.selected_tileset[1]
             tile_id == editor.selected_tile[1]
             tile == lv.tilesets[tileset_id].tiles[tile_id + 1]
         IN  IF auto_tile
             THEN CHOOSE out \in
                    {set_surrounding_tiles(
                        SetTile(lv, placement_layer(lv, tile, tile_ptr),
                                row, col, tile_ptr),
                        row, col, placement_layer(lv, tile, tile_ptr)) :
                     tile_ptr \in {auto_tile_pointer(lv, row, col, tile,
                                                     tileset_id, tile_id)}} : TRUE
             ELSE SetTile(lv, placement_layer(lv, tile,
                                              Some(TilePointer(tileset_id, tile_id))),
                          row, col, Some(TilePointer(tileset_id, tile_id)))
    ELSE clear_layer(
             clear_layer(
                 clear_layer(lv, row, col, "Background", editor.show_background,
                             auto_tile),
                 row, col, "Object", editor.show_object, auto_tile),
             row, col, "Overlay", editor.show_overlay, auto_tile)

(***************************************************************************)
(* The tileset registry the editor sessions start with: tileset "a" and    *)
(* tileset "b", loaded before any grid operation.                          *)
(***************************************************************************)
Wild == None

Yes == Some(TRUE)

No == Some(FALSE)

AllWild == <<Wild, Wild, Wild, Wild, Wild, Wild, Wild, Wild>>

AllTrue == <<TRUE, TRUE, TRUE, TRUE, TRUE, TRUE, TRUE, TRUE>>

PartialMatrix == << <<FALSE, TRUE, FALSE>>, <<TRUE, TRUE, FALSE>>, <<FALSE, FALSE, TRUE>> >>

TilesA ==
    << TileAsset(0, 0, Some(<<Wild, Wild, Wild, No, Wild, Wild, Wild, No>>),
                 "Object", Some(1), Some(CollisionMatrixNew)),
       TileAsset(16, 0, Some(<<Wild, Wild, Wild, Yes, Wild, Wild, Wild, Wild>>),
                 "Object", Some(1), Some(CollisionMatrixNew)),
       TileAsset(32, 0, Some(<<Wild, Wild, Wild, Wild, Wild, No, Wild, Yes>>),
                 "Object", Some(1), Some(CollisionMatrixNew)),
       TileAsset(48, 0, Some(from_array(AllTrue)),
                 "Object", Some(1), Some(CollisionMatrixNew)),
       TileAsset(0, 16, None, "Object", None, Some(CollisionMatrixNew)),
       TileAsset(16, 16, Some(AllWild), "Background", None, None),
       TileAsset(32, 16, Some(<<Wild, No, Wild, Wild, Wild, Wild, Wild, Wild>>),
                 "Overlay", Some(2), None) >>

TilesB ==
    << TileAsset(0, 0, Some(AllWild), "Background", Some(1), None),
       TileAsset(16, 0, None, "Object", None, Some(PartialMatrix)) >>

TilesetIds == {"a", "b"}

InitTilesets ==
    [id \in TilesetIds |-> [tiles |-> IF id = "a" THEN TilesA ELSE TilesB]]

Ptr(ts, idx) == Some(TilePointer(ts, idx))

\* Cell contents of the levels an editing session starts from, by pattern.
ObjectPattern(k, r, c) ==
    CASE k = 0 -> None
      [] k = 1 -> Ptr("a", 1)
      [] k = 2 -> IF (r + c) % 2 = 0 THEN Ptr("a", 0) ELSE None
      [] k = 3 -> IF r = 0 THEN Ptr("a", 3) ELSE Ptr("a", 4)
      [] k = 4 -> IF c = 0 THEN Ptr("a", 0) ELSE Ptr("a", 2)
      [] k = 5 -> IF c % 2 = 0 THEN Ptr("a", 4) ELSE Ptr("a", 1)

BackgroundPattern(k, r, c) ==
    CASE k = 0 -> None
      [] k = 1 -> Ptr("a", 5)
      [] k = 2 -> IF r = 0 THEN Ptr("b", 0) ELSE Ptr("a", 5)

OverlayPattern(k, r, c) ==
    CASE k = 0 -> None
      [] k = 1 -> Ptr("a", 6)
      [] k = 2 -> IF c = 0 THEN Ptr("a", 6) ELSE None

\* The levels an editing session starts from (Level::load of a level file,
\* then "Add tileset" for the tilesets the file does not mention).
PatternLevel(kb, ko, kv) ==
    [rows |-> MaxRows, cols |-> MaxCols,
     background |-> [i \in 1..MaxRows |-> [j \in 1..MaxCols |->
                        BackgroundPattern(kb, i - 1, j - 1)]],
     object |-> [i \in 1..MaxRows |-> [j \in 1..MaxCols |->
                        ObjectPattern(ko, i - 1, j - 1)]],
     overlay |-> [i \in 1..MaxRows |-> [j \in 1..MaxCols |->
                        OverlayPattern(kv, i - 1, j - 1)]],
     tilesets |-> InitTilesets]

EditorLevels ==
    {PatternLevel(kb, ko, kv) : kb \in 0..2, ko \in 0..5, kv \in 0..2}

\* The LevelEditorSettings values place_tile is called with: nothing
\* selected, a tileset without a tile, or a tileset and one of its tiles.
Selection(lv) ==
    {<<None, None>>, <<Some("a"), None>>}
    \cup UNION {{<<Some(id), Some(t)>> : t \in 0..(Len(lv.tilesets[id].tiles) - 1)}
                : id \in TilesetIds}

\* LevelEditorSettings::new(): the editor closed, nothing selected, every
\* layer shown (the zoom rectangle is no part of the model).
LevelEditorSettingsNew ==
    [open |-> FALSE, selected_tileset |-> None, selected_tile |-> None,
     show_background |-> TRUE, show_object |-> TRUE, show_overlay |-> TRUE,
     editing_tile |-> FALSE]

EditorSettings(sel, sb, so, sv) ==
    [selected_tileset |-> sel[1], selected_tile |-> sel[2],
     show_background |-> sb, show_object |-> so, show_overlay |-> sv]

\* The visibility flags are read only by the clear branch; a placement is
\* drawn with all layers shown.
EditorInputs(lv) ==
    {EditorSettings(sel, TRUE, TRUE, TRUE) : sel \in Selection(lv)}
    \cup {EditorSettings(<<None, None>>, sb, so, sv) :
            sb \in BOOLEAN, so \in BOOLEAN, sv \in BOOLEAN}

NoBody == [hitbox |-> [x |-> 0, y |-> 0, w |-> 0, h |-> 0]]

\* The three layers of a level, without its registry.
Layers(lv) ==
    [background |-> lv.background, object |-> lv.object, overlay |-> lv.overlay]

(***************************************************************************)
(* Spec: one editor operation on a loaded level.  tile_placer_selector     *)
(* calls place_tile only for a (row, col) inside the stored extent.  The   *)
(* history variable last records the operation and the layers before it.   *)
(***************************************************************************)
Init ==
    /\ editor_settings = LevelEditorSettingsNew
    /\ sweep = NoSweep
    /\ level \in EditorLevels
    /\ body = NoBody
    /\ last = [op |-> "init"]

PlaceTile ==
    /\ last.op = "init"
    /\ \E editor \in EditorInputs(level), auto_tile \in BOOLEAN,
          row \in 0..(level.rows - 1), col \in 0..(level.cols - 1) :
          /\ level' = place_tile(level, row, col, editor, auto_tile)
          /\ last' = [op |-> "place_tile", row |-> row, col |-> col,
                      editor |-> editor, auto_tile |-> auto_tile,
                      pre |-> Layers(level)]
    /\ UNCHANGED <<body, editor_settings, sweep>>

Next == PlaceTile

Spec == Init /\ [][Next]_vars

(***************************************************************************)
(* Properties of the editor's placement and clear.                         *)
(***************************************************************************)
\* The last operation placed a concrete tile / cleared.
Placement ==
    /\ last.op = "place_tile"
    /\ last.editor.selected_tileset # None
    /\ last.editor.selected_tile # None

Clearing ==
    /\ last.op = "place_tile"
    /\ ~(last.editor.selected_tileset # None /\ last.editor.selected_tile # None)

SelectedPointer ==
    TilePointer(last.editor.selected_tileset[1], last.editor.selected_tile[1])

SelectedTile == get_tile(level, SelectedPointer)

\* The level as it was before the last operation (place_tile never touches
\* the extent or the registry).
PreLevel ==
    [level EXCEPT !.background = last.pre.background,
                  !.object = last.pre.object,
                  !.overlay = last.pre.overlay]

CellOf(lv, layer_id, row, col) == get_layer(lv, layer_id)[row + 1][col + 1]

Shown(layer_id) ==
    CASE layer_id = "Background" -> last.editor.show_background
      [] layer_id = "Object" -> last.editor.show_object
      [] layer_id = "Overlay" -> last.editor.show_overlay

\* A rule and a signature disagree on a slot where both are concrete.
Mismatch(rule, sig) ==
    \E i \in RuleSlots : rule[i] # None /\ sig[i] # None /\ rule[i] # sig[i]

\* The tiles of the tileset that qualify as replacement for `tile` at
\* (row, col): same group, a rule, no concrete disagreement with the
\* observed signature.
Qualified(lv, row, col, tile, tileset_id) ==
    {idx \in 0..(Len(lv.tilesets[tileset_id].tiles) - 1) :
        LET possible == lv.tilesets[tileset_id].tiles[idx + 1]
        IN  /\ possible.group = tile.group
            /\ possible.auto_rule # None
            /\ ~Mismatch(possible.auto_rule[1],
                         get_auto_tile_for_index(lv, row, col, tile.layer,
                                                 tile.group))}

\* C5: a placement of a concrete tile, with or without auto-tiling, leaves
\* the two layers other than the selected tile's own layer as they were.
C5_PlacementKeepsOtherLayers ==
    Placement =>
        \A layer_id \in TileLayer \ {SelectedTile.layer} :
            get_layer(level, layer_id) = get_layer(PreLevel, layer_id)

\* C5 case: an auto-tiling placement that stored a pointer to a tile tagged
\* with another layer, over a non-empty cell of that other layer.
C5_Witness ==
    /\ Placement
    /\ last.auto_tile
    /\ CellOf(level, SelectedTile.layer, last.row, last.col) # None
    /\ LET stored == get_tile(level, CellOf(level, SelectedTile.layer,
                                            last.row, last.col)[1])
       IN  /\ stored.layer # SelectedTile.layer
           /\ CellOf(PreLevel, "Overlay", last.row, last.col) # None
    /\ get_layer(level, SelectedTile.layer) # get_layer(PreLevel, SelectedTile.layer)

\* C6 as the code has it: an explicit clear empties (row, col) in every
\* layer whose visibility toggle is on and leaves every hidden layer as it
\* was.
C6_ClearEmptiesShownLayers ==
    Clearing =>
        \A layer_id \in TileLayer :
            IF Shown(layer_id)
            THEN CellOf(level, layer_id, last.row, last.col) = None
            ELSE get_layer(level, layer_id) = get_layer(PreLevel, layer_id)

\* C6 as stated: an explicit clear empties (row, col) in all three layers
\* whatever the visibility toggles are.
C6_ClearEmptiesAllLayers ==
    Clearing =>
        \A layer_id \in TileLayer :
            CellOf(level, layer_id, last.row, last.col) = None

\* C6 case: a clear with a hidden layer and a shown layer that both held a
\* tile at (row, col).
C6_Witness ==
    /\ Clearing
    /\ \E hidden, shown \in TileLayer :
          /\ ~Shown(hidden) /\ Shown(shown)
          /\ CellOf(PreLevel, hidden, last.row, last.col) # None
          /\ CellOf(PreLevel, shown, last.row, last.col) # None

\* C7: an edit at (row, col) changes no cell of any layer that is more than
\* one row or one column away from (row, col).
C7_OnlyFirstRingChanges ==
    last.op = "place_tile" =>
        \A layer_id \in TileLayer, r \in 0..(level.rows - 1),
           c \in 0..(level.cols - 1) :
            (\/ r - last.row > 1 \/ last.row - r > 1
             \/ c - last.col > 1 \/ last.col - c > 1)
            => CellOf(level, layer_id, r, c) = CellOf(PreLevel, layer_id, r, c)

\* C7 case: an auto-tiling edit that replaced the pointer of a neighbour
\* while a cell two columns away held a tile in the same layer.
C7_Witness ==
    /\ last.op = "place_tile"
    /\ last.auto_tile
    /\ \E layer_id \in TileLayer, i \in RuleSlots, c \in 0..(level.cols - 1) :
          LET nr == last.row + Offsets[i][1]
              nc == last.col + Offsets[i][2]
          IN  /\ nr >= 0 /\ nr < level.rows /\ nc >= 0 /\ nc < level.cols
              /\ CellOf(level, layer_id, nr, nc) # CellOf(PreLevel, layer_id, nr, nc)
              /\ (c - last.col > 1 \/ last.col - c > 1)
              /\ CellOf(PreLevel, layer_id, nr, c) # None

\* C10: when no tile of the selected tileset qualifies, an auto-tiling
\* placement stores the pointer to the selected tile itself.
C10_FallbackStoresSelected ==
    (/\ Placement
     /\ last.auto_tile
     /\ Qualified(PreLevel, last.row, last.col, SelectedTile,
                  SelectedPointer.ts) = {})
    => CellOf(level, SelectedTile.layer, last.row, last.col)
         = Some(SelectedPointer)

\* C10 case: an auto-tiling placement of a tile that has a rule, with no
\* qualifying candidate, into a cell that held something else.
C10_Witness ==
    /\ Placement
    /\ last.auto_tile
    /\ SelectedTile.auto_rule # None
    /\ Qualified(PreLevel, last.row, last.col, SelectedTile,
                 SelectedPointer.ts) = {}
    /\ CellOf(PreLevel, SelectedTile.layer, last.row, last.col)
         # Some(SelectedPointer)
    /\ CellOf(level, SelectedTile.layer, last.row, last.col)
         = Some(SelectedPointer)

(***************************************************************************)
(* SpecResolve: one call of the resolver.  Tileset "a" is any list of at   *)
(* most MaxTiles tiles of the pool below, and the 8 object-layer           *)
(* neighbours of the centre of a 3 x 3 level are each empty or a pointer   *)
(* to tile 0 of "a".                                                       *)
(***************************************************************************)
TilePool ==
    { TileAsset(0, 0, None, "Object", Some(1), None),
      TileAsset(0, 0, Some(<<Wild, No, Wild, Yes, Wild, Wild, Wild, Wild>>),
                "Object", Some(1), None),
      TileAsset(0, 0, Some(<<Wild, Wild, Wild, Yes, Wild, Yes, Wild, Wild>>),
                "Object", Some(1), None),
      TileAsset(0, 0, Some(AllWild), "Object", Some(2), None),
      TileAsset(0, 0, Some(AllWild), "Object", Some(1), None) }

TileLists == UNION {[1..k -> TilePool] : k \in 1..MaxTiles}

\* A 3 x 3 level whose object layer holds a pointer to tile 0 of "a" in the
\* neighbours of the centre listed in present, with tiles as tileset "a".
ResolveLevel(present, tiles) ==
    [rows |-> 3, cols |-> 3,
     background |-> [i \in 1..3 |-> [j \in 1..3 |-> None]],
     object |-> [i \in 1..3 |-> [j \in 1..3 |->
                   IF \E k \in present : /\ Offsets[k][1] = i - 2
                                         /\ Offsets[k][2] = j - 2
                   THEN Ptr("a", 0) ELSE None]],
     overlay |-> [i \in 1..3 |-> [j \in 1..3 |-> None]],
     tilesets |-> [id \in TilesetIds |->
                     [tiles |-> IF id = "a" THEN tiles ELSE TilesB]]]

ResolveLevels ==
    {ResolveLevel(present, tiles) :
        present \in SUBSET RuleSlots, tiles \in TileLists}

InitResolve ==
    /\ editor_settings = LevelEditorSettingsNew
    /\ sweep = NoSweep
    /\ level \in ResolveLevels
    /\ body = NoBody
    /\ last = [op |-> "init"]

Resolve ==
    /\ last.op = "init"
    /\ \E tile_id \in 0..(Len(level.tilesets["a"].tiles) - 1) :
          last' = [op |-> "resolve", row |-> 1, col |-> 1,
                   tileset_id |-> "a", tile_id |-> tile_id,
                   result |-> find_best_tile_for_index(
                                  level, 1, 1,
                                  level.tilesets["a"].tiles[tile_id + 1], "a")]
    /\ UNCHANGED <<level, body, editor_settings, sweep>>

NextResolve == Resolve

SpecResolve == InitResolve /\ [][NextResolve]_vars

(***************************************************************************)
(* Properties of the resolver.                                             *)
(***************************************************************************)
Resolved == last.op = "resolve"

\* The tile the resolver was asked about, its tileset and the signature
\* observed around the cell.
Subject == level.tilesets[last.tileset_id].tiles[last.tile_id + 1]

Candidates == level.tilesets[last.tileset_id].tiles

Observed ==
    get_auto_tile_for_index(level, last.row, last.col, Subject.layer,
                            Subject.group)

\* The number of slots on which a rule and a signature are both concrete
\* and equal.
Score(rule, sig) ==
    Cardinality({i \in RuleSlots :
                    rule[i] # None /\ sig[i] # None /\ rule[i] = sig[i]})

\* C8: a candidate whose rule disagrees with the observed signature on a
\* slot where both are concrete gets no score from cmp and is never the
\* tile the resolver returns, whatever its other slots are.
C8_MismatchDisqualifies ==
    Resolved =>
        \A idx \in 0..(Len(Candidates) - 1) :
            (/\ Candidates[idx + 1].auto_rule # None
             /\ Mismatch(Candidates[idx + 1].auto_rule[1], Observed))
            => /\ cmp(Candidates[idx + 1].auto_rule[1], Observed) = None
               /\ last.result # Some(TilePointer(last.tileset_id, idx))

\* C8 case: a same-group candidate that agrees with the signature on one
\* concrete slot and disagrees on another, while the resolver returned a
\* tile.
C8_Witness ==
    /\ Resolved
    /\ last.result # None
    /\ \E idx \in 0..(Len(Candidates) - 1) :
          /\ Candidates[idx + 1].group = Subject.group
          /\ Candidates[idx + 1].auto_rule # None
          /\ Mismatch(Candidates[idx + 1].auto_rule[1], Observed)
          /\ Score(Candidates[idx + 1].auto_rule[1], Observed) > 0

\* C9: the resolver returns nothing but a pointer into the same tileset to
\* a qualifying tile (same group, a rule, no concrete disagreement), and
\* when a qualifying tile exists it returns one of maximal score.
C9_BestQualifiedCandidate ==
    Resolved =>
        LET qualified == Qualified(level, last.row, last.col, Subject,
                                   last.tileset_id)
        IN  /\ qualified # {} => last.result # None
            /\ last.result # None =>
                 /\ last.result[1].ts = last.tileset_id
                 /\ last.result[1].idx \in qualified
                 /\ \A j \in qualified :
                       Score(Candidates[j + 1].auto_rule[1], Observed)
                         <= Score(Candidates[last.result[1].idx + 1].auto_rule[1],
                                  Observed)

\* C9 case: two qualifying candidates of different score, the lower one
\* first in the list, and the resolver returned a tile.
C9_Witness ==
    /\ Resolved
    /\ last.result # None
    /\ \E j, k \in Qualified(level, last.row, last.col, Subject,
                             last.tileset_id) :
          /\ j < k
          /\ Score(Candidates[j + 1].auto_rule[1], Observed)
               < Score(Candidates[k + 1].auto_rule[1], Observed)

(***************************************************************************)
(* Collision probe and movement.  Lengths are whole multiples of           *)
(* 1 / UnitsPerPixel pixel, so that TILE_SIZE / TILE_COLLISION_SECTIONS    *)
(* and TileHitInfo::SMALL are exact; the rounding of f32 arithmetic is     *)
(* not part of the model.  The row and col of a TileHitInfo are held in    *)
(* units of 1 / TILE_COLLISION_SECTIONS tile.                              *)
(***************************************************************************)
\* `v as usize` of a floored f32: a negative value saturates to 0.
as_usize(v) == IF v < 0 THEN 0 ELSE v

TileHitInfo(row, col) == [row |-> row, col |-> col]

\* A boundary taken from the hit's tile instead of its sub-cell.
from_left_of_tile(hit) ==
    (hit.col \div TILE_COLLISION_SECTIONS) * TILE_SIZE - SMALL

\* v - SMALL in f32.  An f32 has 24 significant bits, so above 2048 pixels
\* neighbouring values are 2^-12 pixel apart, more than twice SMALL, and the
\* difference rounds back to v; up to 2048 pixels it is below v (by SMALL, or
\* by the nearest multiple of the spacing, which this model does not
\* distinguish).
AbsorbAbove == 2048 * UnitsPerPixel

sub_small(v) == IF v > AbsorbAbove THEN v ELSE v - SMALL

from_left(hit) == sub_small((hit.col * TILE_SIZE) \div TILE_COLLISION_SECTIONS)

from_right(hit) == (hit.col * TILE_SIZE) \div TILE_COLLISION_SECTIONS + PortionSize

from_top(hit) == sub_small((hit.row * TILE_SIZE) \div TILE_COLLISION_SECTIONS)

from_bottom(hit) == (hit.row * TILE_SIZE) \div TILE_COLLISION_SECTIONS + PortionSize

\* The sub-cell of the tile in the given cell of a layer that holds (x, y),
\* when that sub-cell is solid.
HitIn(lv, layer, x, y) ==
    LET row == y \div TILE_SIZE
        col == x \div TILE_SIZE
    IN  IF as_usize(row) >= Len(layer) THEN None
        ELSE IF as_usize(col) >= Len(layer[as_usize(row) + 1]) THEN None
        ELSE LET cell == layer[as_usize(row) + 1][as_usize(col) + 1]
             IN  IF cell = None THEN None
                 ELSE LET tile == get_tile(lv, cell[1])
                          portion_row == (y - row * TILE_SIZE) \div PortionSize
                          portion_col == (x - col * TILE_SIZE) \div PortionSize
                      IN  IF tile.collision_matrix = None THEN None
                          ELSE IF tile.collision_matrix[1][as_usize(portion_row) + 1]
                                                          [as_usize(portion_col) + 1]
                               THEN Some(TileHitInfo(
                                        row * TILE_COLLISION_SECTIONS + portion_row,
                                        col * TILE_COLLISION_SECTIONS + portion_col))
                               ELSE None

\* A probe that falls through to the background and the overlay.
check_for_collision_any_layer(lv, x, y) ==
    IF HitIn(lv, lv.object, x, y) # None THEN HitIn(lv, lv.object, x, y)
    ELSE IF HitIn(lv, lv.background, x, y) # None
         THEN HitIn(lv, lv.background, x, y)
         ELSE HitIn(lv, lv.overlay, x, y)

\* A probe that takes the sub-cell nearest to the point instead of the one
\* that holds it.
check_for_collision_nearest(lv, x, y) ==
    LET hit == HitIn(lv, lv.object, x, y)
        tile == get_tile(lv, lv.object[y \div TILE_SIZE + 1][x \div TILE_SIZE + 1][1])
        near_row == IF y % PortionSize >= PortionSize \div 2
                       /\ y % TILE_SIZE < 2 * PortionSize
                    THEN (y % TILE_SIZE) \div PortionSize + 1
                    ELSE (y % TILE_SIZE) \div PortionSize
        near_col == (x % TILE_SIZE) \div PortionSize
    IN  IF x < 0 \/ y < 0 \/ y \div TILE_SIZE >= Len(lv.object)
           \/ x \div TILE_SIZE >= Len(lv.object[y \div TILE_SIZE + 1])
           \/ lv.object[y \div TILE_SIZE + 1][x \div TILE_SIZE + 1] = None
        THEN hit
        ELSE IF tile.collision_matrix = None THEN None
             ELSE IF tile.collision_matrix[1][near_row + 1][near_col + 1]
                  THEN Some(TileHitInfo(
                           (y \div TILE_SIZE) * TILE_COLLISION_SECTIONS + near_row,
                           (x \div TILE_SIZE) * TILE_COLLISION_SECTIONS + near_col))
                  ELSE None

\* Level::check_for_collision: the object layer only.
check_for_collision(lv, x, y) == HitIn(lv, lv.object, x, y)

\* The first loop of Body::move without the clamp of the check point to the
\* bottom of the box: the sweep ends at the first probe at or past the bottom.
RECURSIVE HorizontalSweepUnclamped(_, _, _, _, _)
HorizontalSweepUnclamped(lv, hitbox, dx, vert_check_point, probes) ==
    LET bottom == hitbox.y + hitbox.h
        edge == IF dx > 0 THEN hitbox.x + hitbox.w ELSE hitbox.x
        hit == check_for_collision(lv, edge, vert_check_point)
        taken == Append(probes, <<edge, vert_check_point>>)
    IN  IF hit # None
        THEN [x |-> IF dx > 0 THEN from_left(hit[1]) - hitbox.w
                    ELSE from_right(hit[1]),
              probes |-> taken]
        ELSE IF vert_check_point >= bottom
             THEN [x |-> hitbox.x, probes |-> taken]
             ELSE HorizontalSweepUnclamped(lv, hitbox, dx,
                                           vert_check_point + PortionSize, taken)

\* The first loop of Body::move from vert_check_point on; hitbox.x already
\* holds the added delta.  probes lists the points probed so far.
RECURSIVE HorizontalSweep(_, _, _, _, _)
HorizontalSweep(lv, hitbox, dx, vert_check_point, probes) ==
    LET bottom == hitbox.y + hitbox.h
        point == IF vert_check_point > bottom THEN bottom ELSE vert_check_point
        edge == IF dx > 0 THEN hitbox.x + hitbox.w ELSE hitbox.x
        hit == check_for_collision(lv, edge, point)
        taken == Append(probes, <<edge, point>>)
    IN  IF hit # None
        THEN [x |-> IF dx > 0 THEN from_left(hit[1]) - hitbox.w
                    ELSE from_right(hit[1]),
              probes |-> taken]
        ELSE IF point = bottom
             THEN [x |-> hitbox.x, probes |-> taken]
             ELSE HorizontalSweep(lv, hitbox, dx, point + PortionSize, taken)

\* The second loop of Body::move from horizontal_check_point on; hitbox.y
\* already holds the added delta.
RECURSIVE VerticalSweep(_, _, _, _, _)
VerticalSweep(lv, hitbox, dy, horizontal_check_point, probes) ==
    LET right == hitbox.x + hitbox.w
        bottom == hitbox.y + hitbox.h
        point == IF horizontal_check_point > right THEN right
                 ELSE horizontal_check_point
        edge == IF dy > 0 THEN bottom ELSE hitbox.y
        hit == check_for_collision(lv, point, edge)
        taken == Append(probes, <<point, edge>>)
    IN  IF hit # None
        THEN [y |-> IF dy > 0 THEN from_top(hit[1]) - hitbox.h
                    ELSE from_bottom(hit[1]),
              probes |-> taken]
        ELSE IF point = right
             THEN [y |-> hitbox.y, probes |-> taken]
             ELSE VerticalSweep(lv, hitbox, dy, point + PortionSize, taken)

\* A move whose vertical sweep runs on the box as it was before the
\* horizontal clamp.
move_unclamped(lv, hitbox, dx, dy) ==
    LET h == HorizontalSweep(lv, [hitbox EXCEPT !.x = @ + dx], dx, hitbox.y, <<>>)
        v == VerticalSweep(lv, [hitbox EXCEPT !.x = @ + dx, !.y = @ + dy], dy,
                           hitbox.x + dx, <<>>)
    IN  [hitbox |-> [hitbox EXCEPT !.x = h.x, !.y = v.y],
         hprobes |-> h.probes, vprobes |-> v.probes]

\* Body::move with delta * dt = (dx, dy): the horizontal sweep, then the
\* vertical sweep on the box the horizontal sweep left.
move(lv, hitbox, dx, dy) ==
    LET h == HorizontalSweep(lv, [hitbox EXCEPT !.x = @ + dx], dx, hitbox.y, <<>>)
        moved == [hitbox EXCEPT !.x = h.x, !.y = @ + dy]
        v == VerticalSweep(lv, moved, dy, moved.x, <<>>)
    IN  [hitbox |-> [moved EXCEPT !.y = v.y],
         hprobes |-> h.probes, vprobes |-> v.probes]

(***************************************************************************)
(* SpecMove: one call of Body::move on a level of MaxRows x MaxCols tiles. *)
(* The box is the player's (14 x 12) or an enemy's (16 x 16), anywhere on  *)
(* a lattice of half sub-cell steps that reaches past the grid on every    *)
(* side; delta * dt is zero, half a sub-cell or one and a half sub-cells   *)
(* on each axis.  SpecProbe: one call of check_for_collision.              *)
(***************************************************************************)
HalfPortion == PortionSize \div 2

Deltas == {0 - PortionSize - HalfPortion, 0 - HalfPortion, 0,
           HalfPortion, PortionSize + HalfPortion}

LatticeX == {i * HalfPortion : i \in (0 - 3)..(6 * MaxCols + 1)}

LatticeY == {i * HalfPortion : i \in (0 - 3)..(6 * MaxRows + 1)}

BodySizes == {<<14 * UnitsPerPixel, 12 * UnitsPerPixel>>,
              <<16 * UnitsPerPixel, 16 * UnitsPerPixel>>}

\* Object-layer contents of the levels the box moves in, by pattern.
PhysicsPattern(k, r, c) ==
    CASE k = 0 -> IF r = 0 /\ c = 1 THEN Ptr("a", 4) ELSE None
      [] k = 1 -> IF c = MaxCols - 1 THEN Ptr("a", 4) ELSE None
      [] k = 2 -> IF r = MaxRows - 1 THEN Ptr("a", 0) ELSE None
      [] k = 3 -> IF r = 0 /\ c = 1 THEN Ptr("b", 1)
                  ELSE IF r = 1 /\ c = 0 THEN Ptr("a", 6) ELSE None
      [] k = 4 -> IF (r = 0 /\ c = 0) \/ (r = 1 /\ c = MaxCols - 1)
                  THEN Ptr("a", 4) ELSE None
      [] k = 5 -> None

PhysicsLevels ==
    { [rows |-> MaxRows, cols |-> MaxCols,
       background |-> [i \in 1..MaxRows |-> [j \in 1..MaxCols |->
                          IF k % 2 = 1 THEN Ptr("a", 4) ELSE Ptr("a", 5)]],
       object |-> [i \in 1..MaxRows |-> [j \in 1..MaxCols |->
                          PhysicsPattern(k, i - 1, j - 1)]],
       overlay |-> [i \in 1..MaxRows |-> [j \in 1..MaxCols |->
                          IF k % 2 = 1 THEN Ptr("b", 1) ELSE None]],
       tilesets |-> InitTilesets] : k \in 0..5 }

InitMove ==
    /\ editor_settings = LevelEditorSettingsNew
    /\ sweep = NoSweep
    /\ level \in PhysicsLevels
    /\ \E x \in LatticeX, y \in LatticeY, size \in BodySizes :
          body = [hitbox |-> [x |-> x, y |-> y, w |-> size[1], h |-> size[2]]]
    /\ last = [op |-> "init"]

Move ==
    /\ last.op = "init"
    /\ \E dx \in Deltas, dy \in Deltas :
          LET moved == move(level, body.hitbox, dx, dy)
          IN  /\ body' = [hitbox |-> moved.hitbox]
              /\ last' = [op |-> "move", pre |-> body.hitbox,
                          dx |-> dx, dy |-> dy,
                          hprobes |-> moved.hprobes, vprobes |-> moved.vprobes]
    /\ UNCHANGED <<level, editor_settings, sweep>>

NextMove == Move

SpecMove == InitMove /\ [][NextMove]_vars

\* The coordinates probed: the lattice, the last unit below every sub-cell
\* boundary of the grid, and the points one tenth and nine tenths into
\* every tile.
ProbePoints(lattice, tiles) ==
    lattice
    \cup {k * PortionSize - 1 : k \in 1..(tiles * TILE_COLLISION_SECTIONS)}
    \cup {t * TILE_SIZE + (k * TILE_SIZE) \div 10 : t \in 0..(tiles - 1), k \in {1, 9}}

InitProbe ==
    /\ editor_settings = LevelEditorSettingsNew
    /\ sweep = NoSweep
    /\ level \in PhysicsLevels
    /\ body = NoBody
    /\ last = [op |-> "init"]

Probe ==
    /\ last.op = "init"
    /\ \E x \in ProbePoints(LatticeX, MaxCols), y \in ProbePoints(LatticeY, MaxRows) :
          last' = [op |-> "check_for_collision", x |-> x, y |-> y,
                   result |-> check_for_collision(level, x, y)]
    /\ UNCHANGED <<level, body, editor_settings, sweep>>

NextProbe == Probe

SpecProbe == InitProbe /\ [][NextProbe]_vars

(***************************************************************************)
(* Properties of the probe and of Body::move.                              *)
(***************************************************************************)
Moved == last.op = "move"

\* The points along an edge that starts at `start` and is `len` long: the
\* start, every sub-cell width after it short of the end, and the end.
SweepPoints(start, len) ==
    LET n == (len + PortionSize - 1) \div PortionSize
    IN  [k \in 1..(n + 1) |->
            IF k <= n THEN start + (k - 1) * PortionSize ELSE start + len]

\* The x of the edge the horizontal sweep of the last move probed.
LeadingX ==
    IF last.dx > 0 THEN last.pre.x + last.dx + last.pre.w
    ELSE last.pre.x + last.dx

\* The indices of the horizontal sweep's points at which the probe hits.
HorizontalHits ==
    LET pts == SweepPoints(last.pre.y, last.pre.h)
    IN  {k \in 1..Len(pts) : check_for_collision(level, LeadingX, pts[k]) # None}

FirstOf(S) == CHOOSE k \in S : \A j \in S : k <= j

\* The left boundary of the sub-cell that holds x.
SubCellLeft(x) == (x \div PortionSize) * PortionSize

\* C1: when the x delta is positive (negative) and a probe on the right
\* (left) edge hits, the move ends with the box's right edge at the left
\* boundary of the hit sub-cell less epsilon (its left edge at the right
\* boundary of the hit sub-cell), and the sweep's probes are the points up to
\* the first hit and none after it.
C1_ClampToFirstHit ==
    (Moved /\ last.dx # 0 /\ HorizontalHits # {}) =>
        LET pts == SweepPoints(last.pre.y, last.pre.h)
            k == FirstOf(HorizontalHits)
        IN  /\ last.hprobes = [i \in 1..k |-> <<LeadingX, pts[i]>>]
            /\ IF last.dx > 0
               THEN body.hitbox.x + body.hitbox.w = SubCellLeft(LeadingX) - SMALL
               ELSE body.hitbox.x = SubCellLeft(LeadingX) + PortionSize

\* C1 case: a move to the right whose first hit is not at the first probe,
\* in a sub-cell that is not the first of its tile, with points left
\* unprobed.
C1_Witness ==
    /\ Moved
    /\ last.dx > 0
    /\ HorizontalHits # {}
    /\ FirstOf(HorizontalHits) > 1
    /\ FirstOf(HorizontalHits) < Len(SweepPoints(last.pre.y, last.pre.h))
    /\ SubCellLeft(LeadingX) % TILE_SIZE # 0
    /\ body.hitbox.x + body.hitbox.w = SubCellLeft(LeadingX) - SMALL

\* C2 as stated: a move with a zero x component leaves hitbox.x as it was,
\* and a move with a zero y component leaves hitbox.y as it was.
C2_ZeroAxisUntouched ==
    Moved =>
        /\ last.dx = 0 => body.hitbox.x = last.pre.x
        /\ last.dy = 0 => body.hitbox.y = last.pre.y

\* A sub-cell (in sub-cell coordinates) is solid when the probe hits in it.
SubSolid(R, C) == check_for_collision(level, C * PortionSize, R * PortionSize) # None

\* The box at (x, y), edges included, overlaps no solid sub-cell.
Clear(x, y, w, h) ==
    \A R \in (y \div PortionSize)..((y + h) \div PortionSize),
       C \in (x \div PortionSize)..((x + w) \div PortionSize) : ~SubSolid(R, C)

\* The box of the last move, shifted by the x delta alone (the y delta
\* alone), would overlap a solid sub-cell.
BlockedX ==
    ~Clear(last.pre.x + last.dx, last.pre.y, last.pre.w, last.pre.h)

BlockedY ==
    ~Clear(last.pre.x, last.pre.y + last.dy, last.pre.w, last.pre.h)

\* A diagonal move of a clear box toward a corner.
Diagonal ==
    /\ Moved
    /\ last.dx # 0 /\ last.dy # 0
    /\ Clear(last.pre.x, last.pre.y, last.pre.w, last.pre.h)

Abs(v) == IF v < 0 THEN 0 - v ELSE v

Probed == last.op = "check_for_collision"

\* The probed point lies in a cell of the grid.
ProbeInGrid ==
    /\ last.x >= 0 /\ last.x < level.cols * TILE_SIZE
    /\ last.y >= 0 /\ last.y < level.rows * TILE_SIZE

ProbedCell(layer_id) ==
    CellOf(level, layer_id, last.y \div TILE_SIZE, last.x \div TILE_SIZE)

\* The sub-cell of the probed point is solid in the tile the given layer
\* holds in the probed point's cell.
SolidIn(layer_id) ==
    /\ ProbedCell(layer_id) # None
    /\ LET matrix == get_tile(level, ProbedCell(layer_id)[1]).collision_matrix
       IN  /\ matrix # None
           /\ matrix[1][(last.y % TILE_SIZE) \div PortionSize + 1]
                        [(last.x % TILE_SIZE) \div PortionSize + 1]

\* C4: a probe of a point whose object-layer cell is empty or holds a tile
\* without a collision matrix reports no hit, and a hit is reported only
\* where the object layer's own tile is solid, whatever the background and
\* overlay layers hold in that cell.
C4_NoHitWithoutObjectMatrix ==
    (Probed /\ ProbeInGrid) =>
        /\ (\/ ProbedCell("Object") = None
            \/ get_tile(level, ProbedCell("Object")[1]).collision_matrix = None)
           => last.result = None
        /\ last.result # None => SolidIn("Object")

\* C4 case: a probe of a point whose object-layer cell is empty while the
\* background and the overlay hold tiles that are solid at that point.
C4_Witness ==
    /\ Probed /\ ProbeInGrid
    /\ ProbedCell("Object") = None
    /\ ProbedCell("Background") # None
    /\ SolidIn("Background")
    /\ SolidIn("Overlay")
    /\ last.result = None

(***************************************************************************)
(* The editor's Resize (editor_panel) and place_tile with its checked      *)
(* indexing.                                                               *)
(***************************************************************************)
\* Vec::resize_with(n, || fill): truncate to n elements or append fills.
resize_with(v, n, fill) ==
    IF Len(v) >= n THEN SubSeq(v, 1, n)
    ELSE v \o [i \in 1..(n - Len(v)) |-> fill]

\* A resize of a layer that leaves the rows it keeps at their old width.
resize_layer_rows_only(layer, rows, cols) ==
    resize_with(layer, rows, [j \in 1..cols |-> None])

\* One layer of the Resize branch: every stored row is resized to cols, then
\* the layer to rows, new rows being cols empty cells.
resize_layer(layer, rows, cols) ==
    resize_with([i \in 1..Len(layer) |-> resize_with(layer[i], cols, None)],
                rows, [j \in 1..cols |-> None])

\* A Resize that leaves the overlay layer as it was.
resize_without_overlay(lv, rows, cols) ==
    [lv EXCEPT !.rows = rows, !.cols = cols,
               !.background = resize_layer(lv.background, rows, cols),
               !.object = resize_layer(lv.object, rows, cols)]

\* The Resize branch for two numbers that parsed.
resize(lv, rows, cols) ==
    [lv EXCEPT !.rows = rows, !.cols = cols,
               !.background = resize_layer(lv.background, rows, cols),
               !.object = resize_layer(lv.object, rows, cols),
               !.overlay = resize_layer(lv.overlay, rows, cols)]

\* get_mut(row) and get_mut(col) both find an element.
InExtent(layer, row, col) ==
    /\ row < Len(layer)
    /\ col < Len(layer[row + 1])

\* A clear block that skips a cell that does not exist.
checked_clear_lenient(run, row, col, layer_id, shown, auto_tile) ==
    IF run.panicked \/ ~shown
       \/ ~InExtent(get_layer(run.level, layer_id), row, col)
    THEN run
    ELSE [run EXCEPT !.level = clear_layer(run.level, row, col, layer_id,
                                           TRUE, auto_tile)]

\* One block of the clear branch with its two expect calls: run is the level
\* so far and whether an earlier expect has failed.
checked_clear(run, row, col, layer_id, shown, auto_tile) ==
    IF run.panicked \/ ~shown THEN run
    ELSE IF ~InExtent(get_layer(run.level, layer_id), row, col)
         THEN [run EXCEPT !.panicked = TRUE]
         ELSE [run EXCEPT !.level = clear_layer(run.level, row, col, layer_id,
                                                TRUE, auto_tile)]

\* place_tile for any (row, col): the level it leaves, at its end or at the
\* expect that failed, and whether one failed.
place_tile_checked(lv, row, col, editor, auto_tile) ==
    IF editor.selected_tileset # None /\ editor.selected_tile # None
    THEN LET tile == lv.tilesets[editor.selected_tileset[1]]
                       .tiles[editor.selected_tile[1] + 1]
         IN  IF InExtent(get_layer(lv, tile.layer), row, col)
             THEN [level |-> place_tile(lv, row, col, editor, auto_tile),
                   panicked |-> FALSE]
             ELSE [level |-> lv, panicked |-> TRUE]
    ELSE checked_clear(
             checked_clear(
                 checked_clear([level |-> lv, panicked |-> FALSE], row, col,
                               "Background", editor.show_background, auto_tile),
                 row, col, "Object", editor.show_object, auto_tile),
             row, col, "Overlay", editor.show_overlay, auto_tile)

(***************************************************************************)
(* SpecResize: an editing session of at most MaxSteps operations, each a   *)
(* Resize to at most MaxRows x MaxCols or a click of tile_placer_selector  *)
(* on a cell inside the stored rows and cols.  last.n counts the           *)
(* operations; a failed expect ends the session.                           *)
(***************************************************************************)
SessionLevels == {PatternLevel(1, 2, 2), PatternLevel(2, 4, 0)}

\* The clicks of a session: an auto-tiling placement of a:1, a plain
\* placement of a:5, a propagating clear with every layer shown.
SessionInputs ==
    { <<EditorSettings(<<Some("a"), Some(1)>>, TRUE, TRUE, TRUE), TRUE>>,
      <<EditorSettings(<<Some("a"), Some(5)>>, TRUE, TRUE, TRUE), FALSE>>,
      <<EditorSettings(<<None, None>>, TRUE, TRUE, TRUE), TRUE>> }

InitResize ==
    /\ editor_settings = LevelEditorSettingsNew
    /\ sweep = NoSweep
    /\ level \in SessionLevels
    /\ body = NoBody
    /\ last = [op |-> "init", n |-> 0]

Resize ==
    /\ last.op # "panic"
    /\ last.n < MaxSteps
    /\ \E rows \in 0..MaxRows, cols \in 0..MaxCols :
          /\ level' = resize(level, rows, cols)
          /\ last' = [op |-> "resize", n |-> last.n + 1,
                      rows |-> rows, cols |-> cols,
                      pre_rows |-> level.rows, pre_cols |-> level.cols,
                      pre |-> Layers(level)]
    /\ UNCHANGED <<body, editor_settings, sweep>>

Click ==
    /\ last.op # "panic"
    /\ last.n < MaxSteps
    /\ \E input \in SessionInputs,
          row \in 0..(level.rows - 1), col \in 0..(level.cols - 1) :
          \E run \in {place_tile_checked(level, row, col, input[1], input[2])} :
              /\ level' = run.level
              /\ last' = [op |-> IF run.panicked THEN "panic" ELSE "place_tile",
                          n |-> last.n + 1, row |-> row, col |-> col,
                          editor |-> input[1], auto_tile |-> input[2],
                          pre |-> Layers(level)]
    /\ UNCHANGED <<body, editor_settings, sweep>>

NextResize == Resize \/ Click

SpecResize == InitResize /\ [][NextResize]_vars

Resized == last.op = "resize"

Min(a, b) == IF a < b THEN a ELSE b

\* C11: after a resize to (r, c) each of the three layers has exactly r rows
\* of exactly c cells, a cell inside both the old and the new extent holds
\* what it held, and every other cell is empty.
C11_ResizeKeepsOverlap ==
    Resized =>
        \A layer_id \in TileLayer :
            LET layer == get_layer(level, layer_id)
                old == get_layer(last.pre, layer_id)
            IN  /\ Len(layer) = last.rows
                /\ \A i \in 1..Len(layer) :
                      /\ Len(layer[i]) = last.cols
                      /\ \A j \in 1..Len(layer[i]) :
                            layer[i][j] =
                                IF i <= Min(last.pre_rows, last.rows)
                                   /\ j <= Min(last.pre_cols, last.cols)
                                THEN old[i][j] ELSE None

\* C11 case: a resize that drops a column holding tiles and adds a row, on
\* a layer with a tile in the part that is kept.
C11_Witness ==
    /\ Resized
    /\ last.rows > last.pre_rows
    /\ last.cols < last.pre_cols
    /\ last.cols > 0
    /\ last.pre_rows > 0
    /\ last.pre.object[1][last.pre_cols] # None
    /\ level.object[1][1] # None
    /\ level.object[last.rows][1] = None

\* C12: through a session of resizes, placements and clears the three layers
\* have the same extent, and it is the stored rows and cols: each layer has
\* level.rows rows and every row has level.cols cells.
C12_LayersShareStoredExtent ==
    \A layer_id \in TileLayer :
        LET layer == get_layer(level, layer_id)
        IN  /\ Len(layer) = level.rows
            /\ \A i \in 1..Len(layer) : Len(layer[i]) = level.cols

\* C12 case: a placement into an empty cell of a level that an earlier
\* resize had shrunk in both directions.
C12_Witness ==
    /\ last.op = "place_tile"
    /\ last.n = MaxSteps
    /\ last.editor.selected_tile # None
    /\ level.rows = 1
    /\ level.cols = 2
    /\ last.pre.object[1][2] = None
    /\ level.object[1][2] # None

(***************************************************************************)
(* The tileset registry: TilesetAsset::load, get_tile_at_pos and cut       *)
(* (src/src/tilesets.rs), Level::load and the editor's "Add tileset" and   *)
(* "Cut Tiles" buttons.  Tile origins and texture sizes are in pixels.     *)
(***************************************************************************)
TilePx == TILE_SIZE \div UnitsPerPixel

\* A third tileset file: two Object tiles without a collision matrix and a
\* Background tile stored at the origin of the second.
TilesC ==
    << TileAsset(0, 0, None, "Object", None, None),
       TileAsset(TilePx, 0, None, "Object", None, None),
       TileAsset(TilePx, 0, None, "Background", None, None) >>

\* The names that can be typed into the "Tileset Name" prompt; only the
\* first three have files under assets/art/tiles.
TilesetNames == {"a", "b", "c", "missing"}

\* The .meta.json files on disk: the tile lists TilesetAsset::load returns.
\* Nothing in a session of "Add tileset" and "Cut Tiles" writes them.
DiskTiles(name) ==
    CASE name = "a" -> Some(TilesA)
      [] name = "b" -> Some(TilesB)
      [] name = "c" -> Some(TilesC)
      [] OTHER -> None

\* The textures on disk: width and height in pixels and the origins of the
\* tile-sized sections with a pixel of non-zero alpha.  The textures are
\* square, so every section cut visits lies inside the image.
Texture(name) ==
    CASE name = "a" ->
             [width |-> 4 * TilePx, height |-> 4 * TilePx,
              opaque |-> {<<TilesA[i].x, TilesA[i].y>> : i \in 1..Len(TilesA)}
                         \cup {<<3 * TilePx, TilePx>>, <<0, 2 * TilePx>>}]
      [] name = "b" ->
             [width |-> 2 * TilePx, height |-> 2 * TilePx,
              opaque |-> {<<0, 0>>, <<TilePx, 0>>, <<0, TilePx>>}]
      [] OTHER ->
             [width |-> 2 * TilePx, height |-> 2 * TilePx,
              opaque |-> {<<0, 0>>, <<TilePx, 0>>, <<TilePx, TilePx>>}]

\* TilesetAsset::load: Ok(the tileset) as Some, Err as None.
load(name) ==
    IF DiskTiles(name) = None THEN None
    ELSE Some([tiles |-> DiskTiles(name)[1]])

\* The last index whose tile is stored at exactly (x, y).
get_tile_at_pos(tiles, x, y) ==
    LET found == {i \in 1..Len(tiles) : tiles[i].x = x /\ tiles[i].y = y}
    IN  IF found = {} THEN None
        ELSE Some((CHOOSE i \in found : \A k \in found : k <= i) - 1)

is_section_transparent(tex, x, y) == <<x, y>> \notin tex.opaque

\* The body of cut's inner loop for the section at (x, y).
cut_section(tex, tiles, x, y) ==
    LET tile == get_tile_at_pos(tiles, x, y)
    IN  IF tile # None
        THEN IF tiles[tile[1] + 1].layer = "Object"
                /\ tiles[tile[1] + 1].collision_matrix = None
             THEN [tiles EXCEPT ![tile[1] + 1].collision_matrix =
                                    Some(CollisionMatrixNew)]
             ELSE tiles
        ELSE IF ~is_section_transparent(tex, x, y)
             THEN Append(tiles, TileAsset(x, y, None, "Object", None,
                                          Some(CollisionMatrixNew)))
             ELSE tiles

\* cut's two loops from the k-th section on: rows counts the texture's
\* width, cols its height, and section k is at row k \div cols, col k % cols.
RECURSIVE cut_from(_, _, _, _, _)
cut_from(tex, tiles, k, rows, cols) ==
    IF k >= rows * cols THEN tiles
    ELSE cut_from(tex,
                  cut_section(tex, tiles, TilePx * (k % cols),
                              TilePx * (k \div cols)),
                  k + 1, rows, cols)

\* "Add tileset" with a name typed into the prompt: HashMap::insert of the
\* loaded tileset, or an alert and no change when the load fails.
add_tileset(tilesets, name) ==
    IF load(name) = None THEN tilesets
    ELSE [id \in DOMAIN tilesets \cup {name} |->
             IF id = name THEN load(name)[1] ELSE tilesets[id]]

cut(tex, tileset) ==
    [tileset EXCEPT !.tiles = cut_from(tex, tileset.tiles, 0,
                                       tex.width \div TilePx,
                                       tex.height \div TilePx)]

\* The tileset ids Level::load collects from the three layers.
textures(lv) ==
    {id \in TilesetNames :
        \E layer_id \in TileLayer :
            \E i \in 1..Len(get_layer(lv, layer_id)) :
                \E j \in 1..Len(get_layer(lv, layer_id)[i]) :
                    /\ get_layer(lv, layer_id)[i][j] # None
                    /\ get_layer(lv, layer_id)[i][j][1].ts = id}

\* Level::load of a level file: the registry holds the tilesets the
\* layers point into, each as loaded from disk.
LoadedLevel(lv) ==
    [lv EXCEPT !.tilesets = [id \in textures(lv) |-> load(id)[1]]]

(***************************************************************************)
(* SpecRegistry: a session of at most MaxSteps uses of "Add tileset" and   *)
(* "Cut Tiles" on a freshly loaded level.                                  *)
(***************************************************************************)
InitRegistry ==
    /\ editor_settings = LevelEditorSettingsNew
    /\ sweep = NoSweep
    /\ level \in {LoadedLevel(lv) : lv \in EditorLevels}
    /\ body = NoBody
    /\ last = [op |-> "init", n |-> 0]

AddTileset ==
    /\ last.n < MaxSteps
    /\ \E name \in TilesetNames :
          /\ level' = [level EXCEPT !.tilesets = add_tileset(level.tilesets, name)]
          /\ last' = [op |-> "add_tileset", n |-> last.n + 1, name |-> name,
                      pre |-> level.tilesets]
    /\ UNCHANGED <<body, editor_settings, sweep>>

\* "Cut Tiles" is offered for the selected tileset, one of the registry.
CutTiles ==
    /\ last.n < MaxSteps
    /\ \E tileset_id \in DOMAIN level.tilesets :
          /\ level' = [level EXCEPT !.tilesets[tileset_id] =
                                        cut(Texture(tileset_id), @)]
          /\ last' = [op |-> "cut", n |-> last.n + 1, name |-> tileset_id,
                      pre |-> level.tilesets]
    /\ UNCHANGED <<body, editor_settings, sweep>>

NextRegistry == AddTileset \/ CutTiles

SpecRegistry == InitRegistry /\ [][NextRegistry]_vars

\* The tile list before grew into the list after: no index lost and every
\* index still at its origin.
KeepsIndices(before, after) ==
    /\ Len(after) >= Len(before)
    /\ \A i \in 1..Len(before) :
          after[i].x = before[i].x /\ after[i].y = before[i].y

\* C13: no "Add tileset" and no "Cut Tiles" removes or re-indexes a tile
\* definition: every tileset of the registry before the operation is in
\* the registry after it, with at least as many tiles and every index at
\* the origin it had.
C13_RegistryOnlyGrows ==
    last.op \in {"add_tileset", "cut"} =>
        \A id \in DOMAIN last.pre :
            /\ id \in DOMAIN level.tilesets
            /\ KeepsIndices(last.pre[id].tiles, level.tilesets[id].tiles)

(***************************************************************************)
(* SpecOutside: one call of place_tile on a loaded level for a (row, col)  *)
(* that tile_placer_selector would have rejected: the row, the column or   *)
(* both lie one past the stored extent.                                    *)
(***************************************************************************)
InitOutside ==
    /\ editor_settings = LevelEditorSettingsNew
    /\ sweep = NoSweep
    /\ level \in EditorLevels
    /\ body = NoBody
    /\ last = [op |-> "init"]

PlaceOutside ==
    /\ last.op = "init"
    /\ \E editor \in EditorInputs(level), auto_tile \in BOOLEAN,
          row \in 0..level.rows, col \in 0..level.cols :
          /\ row >= level.rows \/ col >= level.cols
          /\ \E run \in {place_tile_checked(level, row, col, editor, auto_tile)} :
                /\ level' = run.level
                /\ last' = [op |-> IF run.panicked THEN "panic" ELSE "place_tile",
                            row |-> row, col |-> col,
                            editor |-> editor, auto_tile |-> auto_tile,
                            pre |-> Layers(level)]
    /\ UNCHANGED <<body, editor_settings, sweep>>

NextOutside == PlaceOutside

SpecOutside == InitOutside /\ [][NextOutside]_vars

\* place_tile was called outside the extent / with something to write: a
\* selected tile, or a clear with at least one layer shown.
CalledOutside == last.op \in {"panic", "place_tile"}

TouchesACell ==
    \/ last.editor.selected_tileset # None /\ last.editor.selected_tile # None
    \/ last.editor.show_background
    \/ last.editor.show_object
    \/ last.editor.show_overlay

\* C14 as stated: every place or clear outside the extent ends in a panic,
\* with the three layers as they were.
C14_OutsidePanics ==
    CalledOutside =>
        /\ last.op = "panic"
        /\ Layers(level) = last.pre

\* C14: a place or clear outside the extent never writes: the three layers
\* are as they were, and the call ends in a panic exactly when it has a
\* cell to address, that is with a tile selected or a layer shown; a clear
\* with every layer hidden returns normally.
C14_OutsideNeverWrites ==
    CalledOutside =>
        /\ Layers(level) = last.pre
        /\ last.op = "panic" <=> TouchesACell

\* C14 case: a propagating clear with only the overlay shown, in an existing
\* row but one column past its end, on a level with overlay tiles, panics.
C14_Witness ==
    /\ last.op = "panic"
    /\ last.editor.selected_tileset = None
    /\ ~last.editor.show_background
    /\ ~last.editor.show_object
    /\ last.editor.show_overlay
    /\ last.auto_tile
    /\ last.row = 0
    /\ last.col = level.cols
    /\ level.overlay[1][level.cols] # None

(***************************************************************************)
(* Properties of the probe's sub-cell and of the hit's boundaries.         *)
(***************************************************************************)
\* The probed point lies in a cell whose object-layer tile has a matrix.
ProbedMatrix == get_tile(level, ProbedCell("Object")[1]).collision_matrix

ProbeOnMatrix ==
    /\ Probed
    /\ ProbeInGrid
    /\ ProbedCell("Object") # None
    /\ ProbedMatrix # None

\* The sub-cells of the tile at index t whose span along one axis holds v.
SubCellsHolding(t, v) ==
    {k \in 0..(TILE_COLLISION_SECTIONS - 1) :
        /\ t * TILE_SIZE + k * PortionSize <= v
        /\ v < t * TILE_SIZE + (k + 1) * PortionSize}

\* The local fraction of the probed point in its tile is tenths / 10 on
\* both axes.
ProbeAtTenths(tenths) ==
    /\ last.x % TILE_SIZE = (tenths * TILE_SIZE) \div 10
    /\ last.y % TILE_SIZE = (tenths * TILE_SIZE) \div 10

\* C15: for a point inside an in-range object-layer tile with a matrix,
\* exactly one sub_row and one sub_col in 0..N-1 hold the point, they are
\* floor((y - row*tile_size)/(tile_size/N)) and the same for x, and the probe
\* reports a hit, carrying that sub-cell, exactly when the matrix is solid
\* there; (0.1, 0.1) of the tile is sub-cell (0, 0) and (0.9, 0.9) is (2, 2).
C15_SubCellOfPoint ==
    ProbeOnMatrix =>
        LET row == last.y \div TILE_SIZE
            col == last.x \div TILE_SIZE
        IN  \E sub_row \in SubCellsHolding(row, last.y),
               sub_col \in SubCellsHolding(col, last.x) :
                /\ SubCellsHolding(row, last.y) = {sub_row}
                /\ SubCellsHolding(col, last.x) = {sub_col}
                /\ sub_row = (last.y - row * TILE_SIZE) \div PortionSize
                /\ sub_col = (last.x - col * TILE_SIZE) \div PortionSize
                /\ last.result =
                       IF ProbedMatrix[1][sub_row + 1][sub_col + 1]
                       THEN Some(TileHitInfo(
                                row * TILE_COLLISION_SECTIONS + sub_row,
                                col * TILE_COLLISION_SECTIONS + sub_col))
                       ELSE None
                /\ ProbeAtTenths(1) => sub_row = 0 /\ sub_col = 0
                /\ ProbeAtTenths(9) => sub_row = 2 /\ sub_col = 2

\* C15 case: a probe nine tenths into a solid tile away from the grid's
\* origin hits the tile's last sub-cell on both axes.
C15_Witness ==
    /\ ProbeOnMatrix
    /\ ProbeAtTenths(9)
    /\ last.x > TILE_SIZE
    /\ last.result # None
    /\ last.result[1].row % TILE_COLLISION_SECTIONS = 2
    /\ last.result[1].col % TILE_COLLISION_SECTIONS = 2

(***************************************************************************)
(* SpecResolveTwice: two calls of the resolver with the same tileset "a":  *)
(* one for the centre of a 3 x 3 level, one for the centre or the top-left *)
(* corner of a second 3 x 3 level, each for any tile of "a" as subject.    *)
(***************************************************************************)
\* The neighbours filled in the first level, and in the second: the slots
\* are those the rules of the pool are concrete on, and for the corner the
\* slots 2 and 8 of the centre, which are its east and south neighbours.
FirstPatterns == SUBSET {4, 6}

SecondPatterns == {{}, {2}, {4}, {4, 6}, {2, 8}, {2, 4, 6, 8}}

InitResolveTwice ==
    /\ editor_settings = LevelEditorSettingsNew
    /\ sweep = NoSweep
    /\ level \in {ResolveLevel(present, tiles) :
                     present \in FirstPatterns, tiles \in TileLists}
    /\ body = NoBody
    /\ last = [op |-> "init"]

ResolveTwice ==
    /\ last.op = "init"
    /\ \E tile_id \in 0..(Len(level.tilesets["a"].tiles) - 1),
          tile_id2 \in 0..(Len(level.tilesets["a"].tiles) - 1),
          present \in SecondPatterns, at \in {0, 1} :
          \E other \in {ResolveLevel(present, level.tilesets["a"].tiles)} :
              last' = [op |-> "resolve_twice",
                       row |-> 1, col |-> 1, tile_id |-> tile_id,
                       result |-> find_best_tile_for_index(
                                      level, 1, 1,
                                      level.tilesets["a"].tiles[tile_id + 1], "a"),
                       other |-> other,
                       row2 |-> at, col2 |-> at, tile_id2 |-> tile_id2,
                       result2 |-> find_best_tile_for_index(
                                       other, at, at,
                                       other.tilesets["a"].tiles[tile_id2 + 1], "a")]
    /\ UNCHANGED <<level, body, editor_settings, sweep>>

NextResolveTwice == ResolveTwice

SpecResolveTwice == InitResolveTwice /\ [][NextResolveTwice]_vars

ResolvedTwice == last.op = "resolve_twice"

\* The subjects of the two runs and the signatures observed around them.
FirstSubject == level.tilesets["a"].tiles[last.tile_id + 1]

SecondSubject == last.other.tilesets["a"].tiles[last.tile_id2 + 1]

FirstObserved ==
    get_auto_tile_for_index(level, last.row, last.col, FirstSubject.layer,
                            FirstSubject.group)

SecondObserved ==
    get_auto_tile_for_index(last.other, last.row2, last.col2,
                            SecondSubject.layer, SecondSubject.group)

SameResolverInputs ==
    /\ ResolvedTwice
    /\ FirstObserved = SecondObserved
    /\ FirstSubject.group = SecondSubject.group
    /\ level.tilesets["a"].tiles = last.other.tilesets["a"].tiles

\* C16: two runs of the resolver with the same neighbour signature, the same
\* subject group and the same tile list return the same tile index (or both
\* none), whatever the grids, the positions and the subject tiles are.
C16_SameInputsSameIndex ==
    SameResolverInputs => last.result = last.result2

\* C16 case: two runs that agree on signature, group and list but differ in
\* grid, position and subject tile, and that name a tile.
C16_Witness ==
    /\ SameResolverInputs
    /\ Layers(level) # Layers(last.other)
    /\ last.row # last.row2
    /\ last.tile_id # last.tile_id2
    /\ FirstSubject # SecondSubject
    /\ \E i \in RuleSlots : FirstObserved[i] = Some(TRUE)
    /\ last.result # None

(***************************************************************************)
(* Properties of the propagation to the neighbours.                        *)
(***************************************************************************)
\* The last operation was an auto-tiling placement or clear.
Propagated == last.op = "place_tile" /\ last.auto_tile

\* The layers the last operation wrote into.
AffectedLayers ==
    IF Placement THEN {SelectedTile.layer}
    ELSE {layer_id \in TileLayer : Shown(layer_id)}

\* Steps 1 to 3 for the cell (row, col) of layer_id with the given subject:
\* the signature around the cell in that layer, the candidates of the
\* subject's group that have a rule and no concrete disagreement with it,
\* and of those the one of highest score, the later one on a tie.
BestOn(lv, layer_id, row, col, subject, tileset_id) ==
    LET tiles == lv.tilesets[tileset_id].tiles
        sig == get_auto_tile_for_index(lv, row, col, layer_id, subject.group)
        qualified == {idx \in 0..(Len(tiles) - 1) :
                         /\ tiles[idx + 1].group = subject.group
                         /\ tiles[idx + 1].auto_rule # None
                         /\ ~Mismatch(tiles[idx + 1].auto_rule[1], sig)}
        points(idx) == Score(tiles[idx + 1].auto_rule[1], sig)
    IN  IF qualified = {} THEN None
        ELSE Some(TilePointer(tileset_id,
                 CHOOSE idx \in qualified :
                     \A k \in qualified :
                         \/ points(k) < points(idx)
                         \/ points(k) = points(idx) /\ k <= idx))

Resolution(lv, layer_id, row, col, tile) ==
    [layer |-> layer_id, row |-> row, col |-> col, group |-> tile.group,
     signature |-> get_auto_tile_for_index(lv, row, col, tile.layer, tile.group)]

\* The calls of set_surrounding_tiles from neighbour i on, each on the grid
\* the earlier iterations left.
RECURSIVE SurroundingResolutions(_, _, _, _, _)
SurroundingResolutions(lv, row, col, layer_id, i) ==
    IF i > 8 THEN <<>>
    ELSE LET r == row + Offsets[i][1]
             c == col + Offsets[i][2]
             here == IF r >= 0 /\ r < lv.rows /\ c >= 0 /\ c < lv.cols
                        /\ get_layer(lv, layer_id)[r + 1][c + 1] # None
                     THEN <<Resolution(lv, layer_id, r, c,
                                get_tile(lv, get_layer(lv, layer_id)[r + 1][c + 1][1]))>>
                     ELSE <<>>
         IN  CHOOSE out \in
                 {here \o SurroundingResolutions(lv2, row, col, layer_id, i + 1) :
                     lv2 \in {SurroundingStep(lv, row, col, layer_id, i)}} : TRUE

\* The calls one block of the clear branch makes.
ClearResolutions(lv, row, col, layer_id, shown) ==
    IF shown
    THEN CHOOSE out \in
             {SurroundingResolutions(l, row, col, layer_id, 1) :
                 l \in {SetTile(lv, layer_id, row, col, None)}} : TRUE
    ELSE <<>>

\* The calls of an auto-tiling place_tile, in the order they are made.
PlaceResolutions(lv, row, col, editor) ==
    IF editor.selected_tileset # None /\ editor.selected_tile # None
    THEN LET tile == lv.tilesets[editor.selected_tileset[1]]
                       .tiles[editor.selected_tile[1] + 1]
         IN  <<Resolution(lv, tile.layer, row, col, tile)>>
             \o CHOOSE out \in
                    {SurroundingResolutions(l, row, col, tile.layer, 1) :
                        l \in {SetTile(lv, tile.layer, row, col,
                                       auto_tile_pointer(lv, row, col, tile,
                                                         editor.selected_tileset[1],
                                                         editor.selected_tile[1]))}} : TRUE
    ELSE CHOOSE out \in
             {ClearResolutions(lv, row, col, "Background", editor.show_background)
              \o ClearResolutions(b, row, col, "Object", editor.show_object)
              \o ClearResolutions(o, row, col, "Overlay", editor.show_overlay) :
                 <<b, o>> \in
                     {<<b1, clear_layer(b1, row, col, "Object",
                                        editor.show_object, TRUE)>> :
                         b1 \in {clear_layer(lv, row, col, "Background",
                                             editor.show_background, TRUE)}}} : TRUE

\* The auto-tiling clicks of a session: placements of a:1 (group 1) and of
\* a:4 (no group), and a clear of the shown object and overlay layers.
SignatureInputs ==
    { EditorSettings(<<Some("a"), Some(1)>>, TRUE, TRUE, TRUE),
      EditorSettings(<<Some("a"), Some(4)>>, TRUE, TRUE, TRUE),
      EditorSettings(<<None, None>>, FALSE, TRUE, TRUE) }

InitSignature ==
    /\ editor_settings = LevelEditorSettingsNew
    /\ sweep = NoSweep
    /\ level = PatternLevel(2, 2, 0)
    /\ body = NoBody
    /\ last = [op |-> "init", n |-> 0]

ClickAuto ==
    /\ last.n < MaxSteps
    /\ \E editor \in SignatureInputs,
          row \in 0..(level.rows - 1), col \in 0..(level.cols - 1) :
          /\ level' = place_tile(level, row, col, editor, TRUE)
          /\ last' = [op |-> "place_tile", n |-> last.n + 1,
                      row |-> row, col |-> col, editor |-> editor,
                      auto_tile |-> TRUE, pre |-> Layers(level),
                      resolved |-> PlaceResolutions(level, row, col, editor)]
    /\ UNCHANGED <<body, editor_settings, sweep>>

NextSignature == ClickAuto

SpecSignature == InitSignature /\ [][NextSignature]_vars

\* The 8 offsets (rows, columns) in the order NW, N, NE, E, SE, S, SW, W.
Compass ==
    << <<0 - 1, 0 - 1>>, <<0 - 1, 0>>, <<0 - 1, 1>>, <<0, 1>>,
       <<1, 1>>, <<1, 0>>, <<1, 0 - 1>>, <<0, 0 - 1>> >>

\* The neighbour at offset k of the resolved cell is inside the grid and
\* holds, in the resolved cell's own layer, a tile of the subject's group.
SolidAt(res, k) ==
    LET r == res.row + Compass[k][1]
        c == res.col + Compass[k][2]
    IN  /\ r >= 0 /\ r < level.rows /\ c >= 0 /\ c < level.cols
        /\ CellOf(level, res.layer, r, c) # None
        /\ get_tile(level, CellOf(level, res.layer, r, c)[1]).group = res.group

\* C19: the signature of every cell a click resolved has, at each of the 8
\* offsets in the order NW, N, NE, E, SE, S, SW, W, solid exactly when the
\* neighbour is inside the grid and the cell there, in the layer of the
\* resolved cell, holds a tile of the subject's group (none equal to none),
\* and empty otherwise.
C19_SignatureOfSameLayer ==
    last.op = "place_tile" =>
        \A n \in 1..Len(last.resolved) :
            \A k \in RuleSlots :
                last.resolved[n].signature[k] = Some(SolidAt(last.resolved[n], k))

(***************************************************************************)
(* Ties between candidates.                                                *)
(***************************************************************************)
\* The qualified candidates of the last resolution and, of those, the ones
\* of maximal score.
QualifiedNow == Qualified(level, last.row, last.col, Subject, last.tileset_id)

ScoreOf(idx) == Score(Candidates[idx + 1].auto_rule[1], Observed)

TopScorers == {idx \in QualifiedNow : \A k \in QualifiedNow : ScoreOf(k) <= ScoreOf(idx)}

\* C18: when candidates qualify, the resolver returns the one of highest
\* index among those of maximal score, also when that score is 0.
C18_TieGoesToLastIndex ==
    (Resolved /\ QualifiedNow # {}) =>
        /\ last.result # None
        /\ last.result[1].idx \in TopScorers
        /\ \A idx \in TopScorers : idx <= last.result[1].idx

\* C18 case: two candidates tie at the maximal score 0 and the resolver
\* returned the later one.
C18_Witness ==
    /\ Resolved
    /\ Cardinality(TopScorers) >= 2
    /\ \A idx \in TopScorers : ScoreOf(idx) = 0
    /\ last.result # None
    /\ \E idx \in TopScorers : idx < last.result[1].idx

(***************************************************************************)
(* SpecBoundary: the four boundaries of one TileHitInfo.  The hit is the   *)
(* sub-cell (sub_row, sub_col) of the tile (row, col) of a level of any    *)
(* size, near the origin or around the 128th row and column.               *)
(***************************************************************************)
HitTiles == {0, 1, 2, 127, 128, 129}

SubCells == 0..(TILE_COLLISION_SECTIONS - 1)

InitBoundary ==
    /\ editor_settings = LevelEditorSettingsNew
    /\ sweep = NoSweep
    /\ level = PatternLevel(0, 0, 0)
    /\ body = NoBody
    /\ \E row \in HitTiles, col \in HitTiles, sub_row \in SubCells, sub_col \in SubCells :
          last = [op |-> "init", row |-> row, col |-> col,
                  sub_row |-> sub_row, sub_col |-> sub_col]

Boundaries ==
    /\ last.op = "init"
    /\ \E hit \in {TileHitInfo(last.row * TILE_COLLISION_SECTIONS + last.sub_row,
                               last.col * TILE_COLLISION_SECTIONS + last.sub_col)} :
          last' = [last EXCEPT !.op = "boundaries"]
                    @@ [left |-> from_left(hit), right |-> from_right(hit),
                        top |-> from_top(hit), bottom |-> from_bottom(hit)]
    /\ UNCHANGED <<level, body, editor_settings, sweep>>

NextBoundary == Boundaries

SpecBoundary == InitBoundary /\ [][NextBoundary]_vars

\* The left and top edges of the hit sub-cell.
SubCellX == last.col * TILE_SIZE + last.sub_col * PortionSize

SubCellY == last.row * TILE_SIZE + last.sub_row * PortionSize

\* C20: the boundaries of a hit are the sub-cell's left and top edge less
\* epsilon and the sub-cell's right and bottom edge, so that left < right,
\* top < bottom, the spans exceed the sub-cell's width by epsilon only, and
\* left and top lie outside the sub-cell.
C20_BoundariesOfSubCell ==
    last.op = "boundaries" =>
        /\ last.left = SubCellX - SMALL
        /\ last.right = SubCellX + PortionSize
        /\ last.top = SubCellY - SMALL
        /\ last.bottom = SubCellY + PortionSize
        /\ last.left < last.right
        /\ last.top < last.bottom
        /\ last.right - last.left = PortionSize + SMALL
        /\ last.bottom - last.top = PortionSize + SMALL
        /\ last.left < SubCellX
        /\ last.top < SubCellY

(***************************************************************************)
(* The probes of the two sweeps of Body::move, under SpecMove.             *)
(***************************************************************************)
\* The y of the edge the vertical sweep of the last move probed.
LeadingY ==
    IF last.dy > 0 THEN last.pre.y + last.dy + last.pre.h
    ELSE last.pre.y + last.dy

\* The probes of one sweep as offsets along the probed edge.
AlongH == [k \in 1..Len(last.hprobes) |-> last.hprobes[k][2] - last.pre.y]

AlongV == [k \in 1..Len(last.vprobes) |-> last.vprobes[k][1] - body.hitbox.x]

\* The probe hit.
HitAt(probe) == check_for_collision(level, probe[1], probe[2]) # None

\* Offsets along an edge of the given extent: the first at the start of the
\* edge, each next one a sub-cell width after the one before it, but for a
\* last one at the end of the edge, which may be nearer; none past the end,
\* and the last at the end unless ended_by_hit.
WellSpaced(along, extent, ended_by_hit) ==
    /\ Len(along) >= 1
    /\ along[1] = 0
    /\ \A k \in 1..Len(along) : along[k] <= extent
    /\ \A k \in 2..Len(along) :
          \/ along[k] = along[k - 1] + PortionSize
          \/ /\ k = Len(along)
             /\ along[k] = extent
             /\ along[k] > along[k - 1]
             /\ along[k] < along[k - 1] + PortionSize
    /\ ~ended_by_hit => along[Len(along)] = extent

\* C21: in each sweep of Body::move the probes lie on the leading edge, the
\* first at the start of the edge (the box's top for the horizontal sweep,
\* its left for the vertical sweep), each next one a sub-cell width further
\* along, none beyond the end of the edge, only the last one a hit, and,
\* unless a hit ended the sweep, the last one exactly at the end of the edge,
\* also when the sub-cell width does not divide the edge's extent.
C21_ProbesSpanTheEdge ==
    Moved =>
        /\ \A k \in 1..Len(last.hprobes) :
              /\ last.hprobes[k][1] = LeadingX
              /\ k < Len(last.hprobes) => ~HitAt(last.hprobes[k])
        /\ WellSpaced(AlongH, last.pre.h, HitAt(last.hprobes[Len(last.hprobes)]))
        /\ \A k \in 1..Len(last.vprobes) :
              /\ last.vprobes[k][2] = LeadingY
              /\ k < Len(last.vprobes) => ~HitAt(last.vprobes[k])
        /\ WellSpaced(AlongV, last.pre.w, HitAt(last.vprobes[Len(last.vprobes)]))

\* C21 case: a move of the 14 x 12 box, whose extents the sub-cell width does
\* not divide, in which neither sweep hit and each ended with a short step to
\* the end of its edge.
C21_Witness ==
    /\ Moved
    /\ last.dx # 0 /\ last.dy # 0
    /\ last.pre.h % PortionSize # 0 /\ last.pre.w % PortionSize # 0
    /\ ~HitAt(last.hprobes[Len(last.hprobes)])
    /\ ~HitAt(last.vprobes[Len(last.vprobes)])
    /\ Len(last.hprobes) = 4 /\ AlongH[4] = last.pre.h
    /\ AlongH[4] - AlongH[3] < PortionSize
    /\ Len(last.vprobes) = 4 /\ AlongV[4] = last.pre.w
    /\ AlongV[4] - AlongV[3] < PortionSize

\* The sub-cell at row R and column C of the sub-cell grid lies in the grid
\* and is solid in the tile the object layer holds there.
ObjectSolid(R, C) ==
    /\ R >= 0 /\ R < level.rows * TILE_COLLISION_SECTIONS
    /\ C >= 0 /\ C < level.cols * TILE_COLLISION_SECTIONS
    /\ LET cell == CellOf(level, "Object", R \div TILE_COLLISION_SECTIONS,
                          C \div TILE_COLLISION_SECTIONS)
       IN  /\ cell # None
           /\ get_tile(level, cell[1]).collision_matrix # None
           /\ get_tile(level, cell[1]).collision_matrix[1]
                  [(R % TILE_COLLISION_SECTIONS) + 1][(C % TILE_COLLISION_SECTIONS) + 1]

\* The box, edges included, overlaps no solid sub-cell of the object layer.
Outside(hitbox) ==
    \A R \in (hitbox.y \div PortionSize)..((hitbox.y + hitbox.h) \div PortionSize),
       C \in (hitbox.x \div PortionSize)..((hitbox.x + hitbox.w) \div PortionSize) :
          ~ObjectSolid(R, C)

\* C22: a box that overlaps no solid sub-cell of the object layer before a
\* move whose delta is at most one sub-cell width on each axis overlaps none
\* after it.
C22_NoPenetration ==
    (/\ Moved
     /\ Outside(last.pre)
     /\ Abs(last.dx) <= PortionSize /\ Abs(last.dy) <= PortionSize)
        => Outside(body.hitbox)

\* The same for the moves that probe no point left of or above the grid: on
\* these the statement holds.
NoPenetrationFromTheOrigin ==
    (/\ Moved
     /\ Outside(last.pre)
     /\ last.pre.x + last.dx >= 0 /\ last.pre.y + last.dy >= 0
     /\ Abs(last.dx) <= PortionSize /\ Abs(last.dy) <= PortionSize)
        => Outside(body.hitbox)

\* C24: check_for_collision reports a hit only for a point inside the grid:
\* a point with x < 0, y < 0, x >= cols * TILE_SIZE or y >= rows * TILE_SIZE
\* gets no hit.
C24_HitOnlyInsideGrid ==
    Probed => (last.result # None => ProbeInGrid)

\* The same for the points right of or below the grid and for the points
\* inside it: there a hit is always in the sub-cell that holds the point.
HitOnlyInsideGridFromTheOrigin ==
    (Probed /\ last.x >= 0 /\ last.y >= 0 /\ last.result # None) =>
        /\ ProbeInGrid
        /\ SolidIn("Object")

(***************************************************************************)
(* The layer tags of the stored pointers over an editing session.          *)
(***************************************************************************)
\* Every pointer stored in a layer names a tile whose layer tag is that
\* layer.
LayerConsistent(lv) ==
    \A layer_id \in TileLayer :
       \A row \in 1..Len(get_layer(lv, layer_id)) :
          \A col \in 1..Len(get_layer(lv, layer_id)[row]) :
             LET cell == get_layer(lv, layer_id)[row][col]
             IN  cell # None => get_tile(lv, cell[1]).layer = layer_id

\* C23: in a session that starts from a level whose stored pointers all name
\* a tile tagged with the layer that stores them, after any sequence of
\* placements and clears every stored pointer still names a tile tagged with
\* the layer that stores it.
C23_LayerTagsKept == LayerConsistent(level)

(***************************************************************************)
(* SpecTwice: the same click with auto-tiling, twice in a row.  The        *)
(* registry holds, besides tilesets "a" and "b", a tileset "m" whose tiles *)
(* were all left in the default group (None): an Object tile and a         *)
(* Background tile, each with an auto rule on its west neighbour.          *)
(***************************************************************************)
TilesM ==
    << TileAsset(0, 0, Some(<<Wild, Wild, Wild, Wild, Wild, Wild, Wild, No>>),
                 "Object", None, Some(CollisionMatrixNew)),
       TileAsset(16, 0, Some(<<Wild, Wild, Wild, Wild, Wild, Wild, Wild, Yes>>),
                 "Background", None, None) >>

MixedTilesets ==
    [id \in TilesetIds \cup {"m"} |->
        [tiles |-> IF id = "m" THEN TilesM ELSE InitTilesets[id].tiles]]

\* Object-layer contents of the levels of SpecTwice, by pattern.
TwicePattern(k, r, c) ==
    CASE k = 0 -> None
      [] k = 1 -> IF c = 1 THEN Ptr("m", 0) ELSE None
      [] k = 2 -> IF (r + c) % 2 = 0 THEN Ptr("a", 0) ELSE Ptr("m", 0)
      [] k = 3 -> IF r = 0 THEN Ptr("a", 1) ELSE Ptr("a", 2)

TwiceLevels ==
    { [rows |-> MaxRows, cols |-> MaxCols,
       background |-> [i \in 1..MaxRows |-> [j \in 1..MaxCols |->
                          IF k = 2 /\ j = 1 THEN Ptr("m", 1) ELSE None]],
       object |-> [i \in 1..MaxRows |-> [j \in 1..MaxCols |->
                          TwicePattern(k, i - 1, j - 1)]],
       overlay |-> [i \in 1..MaxRows |-> [j \in 1..MaxCols |-> None]],
       tilesets |-> MixedTilesets] : k \in 0..3 }

TwiceInputs ==
    { EditorSettings(<<Some("a"), Some(1)>>, TRUE, TRUE, TRUE),
      EditorSettings(<<Some("a"), Some(3)>>, TRUE, TRUE, TRUE),
      EditorSettings(<<Some("m"), Some(0)>>, TRUE, TRUE, TRUE),
      EditorSettings(<<Some("m"), Some(1)>>, TRUE, TRUE, TRUE) }

InitTwice ==
    /\ editor_settings = LevelEditorSettingsNew
    /\ sweep = NoSweep
    /\ level \in TwiceLevels
    /\ body = NoBody
    /\ last = [op |-> "init", n |-> 0]

\* A click that places the selected tile with auto-tiling.
ClickFirst ==
    /\ last.op = "init"
    /\ \E editor \in TwiceInputs,
          row \in 0..(level.rows - 1), col \in 0..(level.cols - 1) :
          /\ level' = place_tile(level, row, col, editor, TRUE)
          /\ last' = [op |-> "place_tile", n |-> 1,
                      row |-> row, col |-> col, editor |-> editor,
                      auto_tile |-> TRUE, pre |-> Layers(level)]
    /\ UNCHANGED <<body, editor_settings, sweep>>

\* The same click again: same selection, same cell.
ClickAgain ==
    /\ last.op = "place_tile" /\ last.n = 1
    /\ level' = place_tile(level, last.row, last.col, last.editor, TRUE)
    /\ last' = [last EXCEPT !.n = 2, !.pre = Layers(level)]
    /\ UNCHANGED <<body, editor_settings, sweep>>

NextTwice == ClickFirst \/ ClickAgain

SpecTwice == InitTwice /\ [][NextTwice]_vars

\* C25: placing the same selected tile at the same cell with auto-tiling a
\* second time leaves all three layers as the first placement left them.
C25_SecondPlacementChangesNothing ==
    (last.op = "place_tile" /\ last.n = 2) => Layers(level) = last.pre

(***************************************************************************)
(* What a propagating edit keeps, under Spec.                              *)
(***************************************************************************)
\* The loop of set_surrounding_tiles with the neighbours taken in the given
\* order, from position k of the order on.
RECURSIVE ReorderedFrom(_, _, _, _, _, _)
ReorderedFrom(lv, row, col, layer_id, order, k) ==
    IF k > Len(order) THEN lv
    ELSE CHOOSE out \in
            {ReorderedFrom(lv2, row, col, layer_id, order, k + 1) :
                lv2 \in {SurroundingStep(lv, row, col, layer_id, order[k])}} : TRUE

\* The clear of the layers from position k of the layer list on, each shown
\* layer's neighbours re-resolved in the given order.
RECURSIVE ClearReorderedFrom(_, _, _)
ClearReorderedFrom(lv, order, k) ==
    LET layer_ids == <<"Background", "Object", "Overlay">>
    IN  IF k > Len(layer_ids) THEN lv
        ELSE CHOOSE out \in
                {ClearReorderedFrom(lv2, order, k + 1) :
                    lv2 \in {IF Shown(layer_ids[k])
                             THEN ReorderedFrom(
                                      SetTile(lv, layer_ids[k], last.row, last.col, None),
                                      last.row, last.col, layer_ids[k], order, 1)
                             ELSE lv}} : TRUE

\* The level the last propagating edit would have left had it taken the
\* neighbours in the given order.
PropagatedInOrder(order) ==
    IF Placement
    THEN ReorderedFrom(
             SetTile(PreLevel, SelectedTile.layer, last.row, last.col,
                     CellOf(level, SelectedTile.layer, last.row, last.col)),
             last.row, last.col, SelectedTile.layer, order, 1)
    ELSE ClearReorderedFrom(PreLevel, order, 1)

\* The code's order backwards, the odd slots before the even ones, and a
\* shuffle.
OtherOrders ==
    { <<8, 7, 6, 5, 4, 3, 2, 1>>,
      <<1, 3, 5, 7, 2, 4, 6, 8>>,
      <<5, 1, 7, 3, 8, 2, 6, 4>> }

\* The cells of the grid but the edited one.
OtherCells ==
    {rc \in (0..(level.rows - 1)) \X (0..(level.cols - 1)) :
        rc # <<last.row, last.col>>}

\* C26: after a propagating edit every cell but the edited one is empty if
\* it was empty and otherwise holds a pointer into the same tileset to a
\* tile of the same group as before, and the layers are the ones the edit
\* leaves when it takes the 8 neighbours in another order.
C26_PropagationKeepsTilesetAndGroup ==
    Propagated =>
        /\ \A layer_id \in TileLayer, rc \in OtherCells :
              LET before == CellOf(PreLevel, layer_id, rc[1], rc[2])
                  after == CellOf(level, layer_id, rc[1], rc[2])
              IN  IF before = None THEN after = None
                  ELSE /\ after # None
                       /\ after[1].ts = before[1].ts
                       /\ get_tile(level, after[1]).group
                             = get_tile(level, before[1]).group
        /\ \A order \in OtherOrders :
              Layers(PropagatedInOrder(order)) = Layers(level)

\* C26 case: a propagating edit that replaced the pointers of two
\* neighbours, each by a pointer to another tile of its tileset and group.
C26_Witness ==
    /\ Propagated
    /\ \E layer_id \in TileLayer :
          \E rc1 \in OtherCells, rc2 \in OtherCells :
             /\ rc1 # rc2
             /\ \A rc \in {rc1, rc2} :
                   LET before == CellOf(PreLevel, layer_id, rc[1], rc[2])
                       after == CellOf(level, layer_id, rc[1], rc[2])
                   IN  /\ before # None /\ after # None
                       /\ after # before
                       /\ after[1].ts = before[1].ts
                       /\ get_tile(level, after[1]).group
                             = get_tile(level, before[1]).group

(***************************************************************************)
(* The placement without auto-tiling, under Spec.                          *)
(***************************************************************************)
\* C30: a placement of a concrete tile with auto-tiling off stores the
\* selected (tileset, index) pointer at (row, col) of the layer the selected
\* tile is tagged with, whatever the resolver would name there, and leaves
\* every other cell of every layer as it was.
C30_PlainPlacementWritesOneCell ==
    (Placement /\ ~last.auto_tile) =>
        Layers(level) =
            Layers(SetTile(PreLevel, SelectedTile.layer, last.row, last.col,
                           Some(SelectedPointer)))

\* C30 case: a placement with auto-tiling off over another pointer, where the
\* resolver names a tile other than the selected one and a re-resolution of
\* the neighbours would replace one of them.
C30_Witness ==
    /\ Placement /\ ~last.auto_tile
    /\ CellOf(PreLevel, SelectedTile.layer, last.row, last.col)
          \notin {None, Some(SelectedPointer)}
    /\ CellOf(level, SelectedTile.layer, last.row, last.col) = Some(SelectedPointer)
    /\ find_best_tile_for_index(PreLevel, last.row, last.col, SelectedTile,
                                SelectedPointer.ts)
          \notin {None, Some(SelectedPointer)}
    /\ set_surrounding_tiles(level, last.row, last.col, SelectedTile.layer) # level

(***************************************************************************)
(* SpecEditor: the LevelEditorSettings over a session of the editor: the   *)
(* main loop's toggle, and the buttons and clicks of the panel that        *)
(* level_editor shows (the tile editor when editing_tile is set, the       *)
(* editor panel and the tileset picture otherwise).                        *)
(***************************************************************************)
InitEditor ==
    /\ editor_settings = LevelEditorSettingsNew
    /\ sweep = NoSweep
    /\ level = PatternLevel(1, 1, 1)
    /\ body = NoBody
    /\ last = [op |-> "init"]

\* LevelEditorSettings::toggle, on the toggle key.
Toggle ==
    /\ editor_settings' = [editor_settings EXCEPT
                              !.open = ~editor_settings.open,
                              !.selected_tile = None,
                              !.selected_tileset = None]
    /\ last' = [op |-> "toggle"]
    /\ UNCHANGED <<level, body, sweep>>

\* editor_panel: one of the three "Toggle ..." layer buttons.
ToggleLayer ==
    /\ editor_settings.open /\ ~editor_settings.editing_tile
    /\ \E layer_id \in TileLayer :
          /\ editor_settings' =
                CASE layer_id = "Background" ->
                        [editor_settings EXCEPT !.show_background = ~@]
                  [] layer_id = "Object" ->
                        [editor_settings EXCEPT !.show_object = ~@]
                  [] layer_id = "Overlay" ->
                        [editor_settings EXCEPT !.show_overlay = ~@]
          /\ last' = [op |-> "toggle_layer", layer |-> layer_id]
    /\ UNCHANGED <<level, body, sweep>>

\* editor_panel: the button of a loaded tileset.
SelectTileset ==
    /\ editor_settings.open /\ ~editor_settings.editing_tile
    /\ \E tileset_id \in DOMAIN level.tilesets :
          /\ editor_settings' = [editor_settings EXCEPT
                                    !.selected_tileset = Some(tileset_id),
                                    !.selected_tile = None]
          /\ last' = [op |-> "select_tileset", tileset |-> tileset_id]
    /\ UNCHANGED <<level, body, sweep>>

\* tile_select_tex: a click on a tile of the selected tileset's picture.
SelectTile ==
    /\ editor_settings.open /\ ~editor_settings.editing_tile
    /\ editor_settings.selected_tileset # None
    /\ \E tile \in 0..(Len(level.tilesets[editor_settings.selected_tileset[1]].tiles) - 1) :
          /\ editor_settings' = [editor_settings EXCEPT
                                    !.selected_tile = Some(tile),
                                    !.editing_tile = TRUE]
          /\ last' = [op |-> "select_tile", tile |-> tile]
    /\ UNCHANGED <<level, body, sweep>>

\* edit_tile: the "Deselect Tile" button, shown when a tileset and a tile
\* are selected.
DeselectTile ==
    /\ editor_settings.open /\ editor_settings.editing_tile
    /\ editor_settings.selected_tileset # None
    /\ editor_settings.selected_tile # None
    /\ editor_settings' = [editor_settings EXCEPT
                              !.editing_tile = FALSE,
                              !.selected_tile = None]
    /\ last' = [op |-> "deselect_tile"]
    /\ UNCHANGED <<level, body, sweep>>

NextEditor == Toggle \/ ToggleLayer \/ SelectTileset \/ SelectTile \/ DeselectTile

SpecEditor == InitEditor /\ [][NextEditor]_vars

\* C27: in every state the editor reaches, editing_tile is set only while a
\* tileset and a tile are both selected.
C27_EditingNeedsSelection ==
    editor_settings.editing_tile =>
        /\ editor_settings.selected_tileset # None
        /\ editor_settings.selected_tile # None

\* The same for the states whose last operation is not a toggle.
EditingNeedsSelectionUntilToggle ==
    (editor_settings.editing_tile /\ last.op # "toggle") =>
        /\ editor_settings.selected_tileset # None
        /\ editor_settings.selected_tile # None

(***************************************************************************)
(* SpecRender: one call of LevelObjects::render.  An object of the list    *)
(* and a body of the slice are records of an identity (its position before *)
(* the call) and the bottom of its hitbox; the operation records the       *)
(* sequence of draws.                                                      *)
(***************************************************************************)
MaxObjects == 3

MaxBodies == 2

\* Body::get_y_sort_key: (hitbox.bottom() * 100.0) as i32, the cast
\* truncating toward zero.
get_y_sort_key(bottom) ==
    LET per_key == UnitsPerPixel \div 100
    IN  IF bottom >= 0 THEN bottom \div per_key
        ELSE 0 - ((0 - bottom) \div per_key)

\* sort_by_key with get_y_sort_key: a stable sort, by insertion of the last
\* element into the sorted rest.
RECURSIVE sort_by_key(_)
sort_by_key(v) ==
    IF Len(v) <= 1 THEN v
    ELSE LET head == sort_by_key(SubSeq(v, 1, Len(v) - 1))
             x == v[Len(v)]
             keep == {i \in 1..Len(head) :
                         get_y_sort_key(head[i].bottom) <= get_y_sort_key(x.bottom)}
             n == Cardinality(keep)
         IN  SubSeq(head, 1, n) \o <<x>> \o SubSeq(head, n + 1, Len(head))

\* The loop of render from (obj_idx, body_idx) on; drawn lists the draws so
\* far.  The branch for an object not above the body indexes the list with
\* body_idx, which panics past the end of the list.
RECURSIVE RenderFrom(_, _, _, _, _)
RenderFrom(lst, other_bodies, obj_idx, body_idx, drawn) ==
    LET obj_y == IF obj_idx < Len(lst)
                 THEN Some(get_y_sort_key(lst[obj_idx + 1].bottom)) ELSE None
        bodies_y == IF body_idx < Len(other_bodies)
                    THEN Some(get_y_sort_key(other_bodies[body_idx + 1].bottom))
                    ELSE None
    IN  IF obj_y = None /\ bodies_y = None
        THEN [drawn |-> drawn, panicked |-> FALSE]
        ELSE IF obj_y = None
        THEN RenderFrom(lst, other_bodies, obj_idx, body_idx + 1,
                        Append(drawn, [kind |-> "body",
                                       of |-> other_bodies[body_idx + 1]]))
        ELSE IF bodies_y = None
        THEN RenderFrom(lst, other_bodies, obj_idx + 1, body_idx,
                        Append(drawn, [kind |-> "object", of |-> lst[obj_idx + 1]]))
        ELSE IF obj_y[1] > bodies_y[1]
        THEN RenderFrom(lst, other_bodies, obj_idx, body_idx + 1,
                        Append(drawn, [kind |-> "body",
                                       of |-> other_bodies[body_idx + 1]]))
        ELSE IF body_idx >= Len(lst)
        THEN [drawn |-> drawn, panicked |-> TRUE]
        ELSE RenderFrom(lst, other_bodies, obj_idx + 1, body_idx,
                        Append(drawn, [kind |-> "object", of |-> lst[body_idx + 1]]))

\* LevelObjects::render: both sequences sorted, then the loop.
render(lst, other_bodies) ==
    RenderFrom(sort_by_key(lst), sort_by_key(other_bodies), 0, 0, <<>>)

\* Hitbox bottoms: three with different keys and one that shares its key
\* with another.
Bottoms ==
    {PortionSize, TILE_SIZE, TILE_SIZE + 1, TILE_SIZE + PortionSize}

\* The sequences of at most n elements with bottoms from Bottoms, each
\* element named by its position.
Listed(n) ==
    UNION {[1..k -> Bottoms] : k \in 0..n}

Named(bottoms) == [i \in 1..Len(bottoms) |-> [id |-> i, bottom |-> bottoms[i]]]

InitRender ==
    /\ editor_settings = LevelEditorSettingsNew
    /\ sweep = NoSweep
    /\ level = PatternLevel(0, 0, 0)
    /\ body = NoBody
    /\ \E lst \in Listed(MaxObjects), other_bodies \in Listed(MaxBodies) :
          last = [op |-> "init", lst |-> Named(lst),
                  other_bodies |-> Named(other_bodies)]

Render ==
    /\ last.op = "init"
    /\ \E run \in {render(last.lst, last.other_bodies)} :
          last' = [op |-> "render",
                   lst |-> sort_by_key(last.lst),
                   other_bodies |-> sort_by_key(last.other_bodies),
                   drawn |-> run.drawn, panicked |-> run.panicked]
    /\ UNCHANGED <<level, body, editor_settings, sweep>>

NextRender == Render

SpecRender == InitRender /\ [][NextRender]_vars

\* The number of draws of the given element.
DrawsOf(kind, element) ==
    Cardinality({k \in 1..Len(last.drawn) :
                    last.drawn[k] = [kind |-> kind, of |-> element]})

\* C28: render indexes nothing out of range, draws every object of the list
\* and every body of the slice exactly once, and draws in non-decreasing
\* order of the y-sort key.
C28_RenderMergesByKey ==
    last.op = "render" =>
        /\ ~last.panicked
        /\ \A i \in 1..Len(last.lst) : DrawsOf("object", last.lst[i]) = 1
        /\ \A i \in 1..Len(last.other_bodies) :
              DrawsOf("body", last.other_bodies[i]) = 1
        /\ \A k \in 2..Len(last.drawn) :
              get_y_sort_key(last.drawn[k - 1].of.bottom)
                 <= get_y_sort_key(last.drawn[k].of.bottom)

\* The same for a list of at most one object drawn with at most one body:
\* there the index body_idx names the object that is due.
RenderMergesOneWithOne ==
    (last.op = "render" /\ Len(last.lst) <= 1 /\ Len(last.other_bodies) <= 1) =>
        /\ ~last.panicked
        /\ \A i \in 1..Len(last.lst) : DrawsOf("object", last.lst[i]) = 1
        /\ \A i \in 1..Len(last.other_bodies) :
              DrawsOf("body", last.other_bodies[i]) = 1
        /\ \A k \in 2..Len(last.drawn) :
              get_y_sort_key(last.drawn[k - 1].of.bottom)
                 <= get_y_sort_key(last.drawn[k].of.bottom)

(***************************************************************************)
(* SpecSweep: the first loop of Body::move, iteration by iteration, in f32 *)
(* arithmetic.  A non-negative f32 is a record [m, e] of value m * 2^e     *)
(* with 2^23 <= m < 2^24 (24 significant bits), or m = 0.  The level has   *)
(* no tile in its object layer, so that check_for_collision returns None   *)
(* at every point and only the loop's own exit ends the sweep.  In this    *)
(* specification the fields of body.hitbox are such records.               *)
(***************************************************************************)
Significand == 2 ^ 23

\* The f32 of value m * 2^e, for 0 <= m < 2^24.
RECURSIVE F32(_, _)
F32(m, e) ==
    IF m = 0 THEN [m |-> 0, e |-> 0]
    ELSE IF m < Significand THEN F32(2 * m, e - 1)
    ELSE [m |-> m, e |-> e]

f32_gt(a, b) ==
    /\ a.m # 0
    /\ \/ b.m = 0
       \/ a.e > b.e
       \/ a.e = b.e /\ a.m > b.m

\* m + r / 2^d in units of 2^e, rounded to the nearest f32, ties to even.
f32_round(m, r, d, e) ==
    LET up == \/ 2 * r > 2 ^ d
              \/ 2 * r = 2 ^ d /\ m % 2 = 1
        rounded == IF up THEN m + 1 ELSE m
    IN  IF rounded = 2 * Significand THEN [m |-> Significand, e |-> e + 1]
        ELSE [m |-> rounded, e |-> e]

\* The f32 sum of two non-negative f32 values.
f32_add(a, b) ==
    IF a.m = 0 THEN b
    ELSE IF b.m = 0 THEN a
    ELSE LET hi == IF f32_gt(b, a) THEN b ELSE a
             lo == IF f32_gt(b, a) THEN a ELSE b
             d == hi.e - lo.e
         IN  IF d > 25 THEN hi
             ELSE LET sum == hi.m + (lo.m \div (2 ^ d))
                      r == lo.m % (2 ^ d)
                  IN  IF sum < 2 * Significand
                      THEN f32_round(sum, r, d, hi.e)
                      ELSE f32_round(sum \div 2, (sum % 2) * (2 ^ d) + r,
                                     d + 1, hi.e + 1)

\* TILE_SIZE / TILE_COLLISION_SECTIONS as the f32 division gives it: 16 / 3
\* rounded to 24 bits.
PortionF32 ==
    LET scaled == (TILE_SIZE \div UnitsPerPixel) * (2 ^ 21)
    IN  F32((2 * scaled + TILE_COLLISION_SECTIONS) \div (2 * TILE_COLLISION_SECTIONS),
            0 - 21)

\* Whole pixels as f32.
Pixels(n) == F32(n, 0)

\* The tops the swept edge starts from: every whole pixel down the level,
\* and a point 2^27 pixels away.
FarStart == F32(1, 27)

SweepStarts ==
    {Pixels(n) : n \in 0..(MaxRows * (TILE_SIZE \div UnitsPerPixel))}
    \cup {FarStart}

\* The heights of the player's and the enemies' boxes, in pixels.
SweepExtents == {size[2] \div UnitsPerPixel : size \in BodySizes}

\* The count stops at ProbeCap.
ProbeCap == 8

InitSweep ==
    /\ editor_settings = LevelEditorSettingsNew
    /\ level = PatternLevel(0, 0, 0)
    /\ \E y \in SweepStarts, h \in SweepExtents :
          /\ body = [hitbox |-> [x |-> Pixels(0), y |-> y,
                                 w |-> Pixels(0), h |-> Pixels(h)]]
          /\ sweep = [pc |-> "loop", vert_check_point |-> y, probes |-> 0]
    /\ last = [op |-> "init"]

\* One iteration of the loop: the check point is clamped to the bottom and
\* probed; the loop ends when it equals the bottom and otherwise the check
\* point advances by a sub-cell.
SweepStep ==
    /\ sweep.pc = "loop"
    /\ LET bottom == f32_add(body.hitbox.y, body.hitbox.h)
           point == IF f32_gt(sweep.vert_check_point, bottom) THEN bottom
                    ELSE sweep.vert_check_point
           probes == IF sweep.probes < ProbeCap THEN sweep.probes + 1
                     ELSE sweep.probes
       IN  /\ sweep' = IF point = bottom
                       THEN [pc |-> "done", vert_check_point |-> point,
                             probes |-> probes]
                       ELSE [pc |-> "loop",
                             vert_check_point |-> f32_add(point, PortionF32),
                             probes |-> probes]
           /\ last' = [op |-> "probe", point |-> point]
    /\ UNCHANGED <<level, body, editor_settings>>

NextSweep == SweepStep

SpecSweep == InitSweep /\ [][NextSweep]_vars

\* The loop runs whenever it can.
SpecSweepFair == SpecSweep /\ WF_vars(SweepStep)

\* ceil(extent / (TILE_SIZE / TILE_COLLISION_SECTIONS)) + 1 for an extent of
\* whole pixels.
ProbeBound(extent) ==
    LET tile == TILE_SIZE \div UnitsPerPixel
    IN  (extent * TILE_COLLISION_SECTIONS + tile - 1) \div tile + 1

\* The box's height in whole pixels.
HeightInPixels ==
    CHOOSE h \in SweepExtents : Pixels(h) = body.hitbox.h

\* C29: a sweep takes at most ceil(extent / (tile_size / N)) + 1 probes.
C29_ProbesWithinBound ==
    sweep.pc \in {"loop", "done"} => sweep.probes <= ProbeBound(HeightInPixels)

\* C29: every sweep ends.
SweepTerminates == <>(sweep.pc = "done")

\* One probe more than that is never exceeded by a sweep that starts within
\* the level.
ProbesWithinBoundPlusOne ==
    (sweep.pc \in {"loop", "done"} /\ body.hitbox.y # FarStart)
        => sweep.probes <= ProbeBound(HeightInPixels) + 1

=============================================================================
